---------------------------- MODULE Spec2Model ----------------------------
(***************************************************************************)
(* A model of libEPOS_STM32 (src/epos.c, src/epos.h): the SDO transaction  *)
(* engine (ReadObject / WriteObject / sendCom / readAnswer), the inbound   *)
(* frame dispatcher (HAL_CAN_RxCpltCallback / processCANMsg /              *)
(* processPDOMessage) and the status-word decoder (checkEPOSstate).        *)
(*                                                                         *)
(* Conventions.                                                            *)
(*  - A C array Data[0..7] is the tuple Data with Data[i+1] = C's Data[i]; *)
(*    B(f, i) reads C's f.Data[i].                                         *)
(*  - int32_t values are Integers in -2^31 .. 2^31-1.  uint32_t values     *)
(*    (DWORD, E_error) are kept as their four bytes, least significant     *)
(*    first (the Cortex-M memory image), because the model checker's       *)
(*    integers stop at 2^31-1.                                             *)
(*  - The foreground and the interrupt handlers interleave at the reads    *)
(*    and writes of the variables they share; an interrupt handler runs to *)
(*    completion with respect to the foreground.                           *)
(***************************************************************************)
EXTENDS Integers, Sequences, FiniteSets, TLC

VARIABLES
    epos,          \* the device array: a sequence of epos_t records
    hcan,          \* the CAN handle: [pTxMsg |-> index of the device whose TxMessage it points to]
    CANMsgBuf,     \* CanRxMsgTypeDef CANMsgBuf[16], as a sequence (CANMsgBuf[i+1] = C's [i])
    pCANMsg,       \* uint8_t pCANMsg
    SDOBusy,       \* bool SDOBusy
    CAN_TxReady,   \* bool CAN_TxReady
    pc,            \* per calling context: where its SDO call stands
    call,          \* per calling context: the call's arguments, locals and result
    mailbox,       \* frames handed to the transport, not yet on the bus
    bus,           \* request frames on the bus that the device has not answered
    hist,          \* history: what has happened in the run so far
    chk,           \* one call of checkEPOSstate: locals and result
    seq            \* one call of a sequencing function (changeEPOSstate, doHoming, ...):
                   \* its position, its locals, and the device it talks to

vars == <<epos, hcan, CANMsgBuf, pCANMsg, SDOBusy, CAN_TxReady, pc, call,
          mailbox, bus, hist, chk, seq>>

-----------------------------------------------------------------------------
(* Bounds of the model.                                                    *)

\* frames received (receive-complete interrupts) in one run of Spec, SpecTwo,
\* SpecAbort and SpecRoundTrip
MaxRx == 2
\* frames received in one run of SpecDispatch
MaxDispatch == 2

\* frames stored in CANMsgBuf when processCANMsg is entered, at most
MaxBuffered == 2

-----------------------------------------------------------------------------
(* Bit and byte arithmetic.                                                *)

RECURSIVE BitAnd(_, _)
\* C's a & b on non-negative operands
BitAnd(a, b) ==
    IF a = 0 \/ b = 0 THEN 0
    ELSE (a % 2) * (b % 2) + 2 * BitAnd(a \div 2, b \div 2)

\* C's a | b on non-negative operands
BitOr(a, b) == a + b - BitAnd(a, b)

\* C's w &= ~b on a WORD w
ClearBits(w, b) == w - BitAnd(w, b)

\* (((int32_t)b3) << 24) + (((int32_t)b2) << 16) + (((int32_t)b1) << 8) + (int32_t)b0
\* as the ARM builds compute it: the shift into the sign bit wraps (two's complement).
LE32(b0, b1, b2, b3) ==
    (IF b3 >= 128 THEN b3 - 256 ELSE b3) * 16777216 + b2 * 65536 + b1 * 256 + b0

\* conversion of an int32_t to uint32_t (value mod 2^32), as its four bytes
U32(s) ==
    LET t == IF s >= 0 THEN s ELSE (s + 2147483647) + 1
        top == IF s >= 0 THEN 0 ELSE 128
    IN  <<t % 256, (t \div 256) % 256, (t \div 65536) % 256, (t \div 16777216) + top>>

\* the uint32_t with a given non-negative value below 2^31
DWORD(n) == U32(n)

\* (DWORD) >> 16
HighWord(d) == d[3] + 256 * d[4]

\* (DWORD) & 0xFFFF
LowWord(d) == d[1] + 256 * d[2]

-----------------------------------------------------------------------------
(* Status word bits, firmware spec 14.1.58.                                *)

E_BIT15 == 32768  \* 0x8000
E_BIT14 == 16384  \* 0x4000
E_BIT13 == 8192  \* 0x2000
E_BIT12 == 4096  \* 0x1000
E_BIT10 == 1024  \* 0x0400
E_BIT08 == 256  \* 0x0100
E_BIT07 == 128  \* 0x0080
E_BIT06 == 64  \* 0x0040
E_BIT05 == 32  \* 0x0020
E_BIT04 == 16  \* 0x0010
E_BIT03 == 8  \* 0x0008
E_BIT02 == 4  \* 0x0004
E_BIT01 == 2  \* 0x0002
E_BIT00 == 1  \* 0x0001

\* compare WORD a with WORD b bitwise
bitcmp(a, b) == IF BitAnd(a, b) = b THEN 1 ELSE 0

\* the C truth value of bitcmp's result
Set(w, b) == bitcmp(w, b) # 0

\* the condition of checkEPOSstate's k-th if statement
StateTest(k, w) ==
    CASE k = 0 ->
            ~Set(w, E_BIT00) /\ ~Set(w, E_BIT01) /\ ~Set(w, E_BIT02) /\ ~Set(w, E_BIT03)
            /\ ~Set(w, E_BIT04) /\ ~Set(w, E_BIT05) /\ ~Set(w, E_BIT06) /\ ~Set(w, E_BIT08)
            /\ ~Set(w, E_BIT14)
      [] k = 1 ->
            ~Set(w, E_BIT00) /\ ~Set(w, E_BIT01) /\ ~Set(w, E_BIT02) /\ ~Set(w, E_BIT03)
            /\ ~Set(w, E_BIT04) /\ ~Set(w, E_BIT05) /\ ~Set(w, E_BIT06) /\ Set(w, E_BIT08)
            /\ ~Set(w, E_BIT14)
      [] k = 2 ->
            ~Set(w, E_BIT00) /\ ~Set(w, E_BIT01) /\ ~Set(w, E_BIT02) /\ ~Set(w, E_BIT03)
            /\ ~Set(w, E_BIT04) /\ ~Set(w, E_BIT05) /\ Set(w, E_BIT06) /\ Set(w, E_BIT08)
            /\ ~Set(w, E_BIT14)
      [] k = 3 ->
            Set(w, E_BIT00) /\ ~Set(w, E_BIT01) /\ ~Set(w, E_BIT02) /\ ~Set(w, E_BIT03)
            /\ ~Set(w, E_BIT04) /\ Set(w, E_BIT05) /\ ~Set(w, E_BIT06) /\ Set(w, E_BIT08)
            /\ ~Set(w, E_BIT14)
      [] k = 4 ->
            Set(w, E_BIT00) /\ Set(w, E_BIT01) /\ ~Set(w, E_BIT02) /\ ~Set(w, E_BIT03)
            /\ ~Set(w, E_BIT04) /\ Set(w, E_BIT05) /\ ~Set(w, E_BIT06) /\ Set(w, E_BIT08)
            /\ ~Set(w, E_BIT14)
      [] k = 5 ->
            Set(w, E_BIT00) /\ Set(w, E_BIT01) /\ ~Set(w, E_BIT02) /\ ~Set(w, E_BIT03)
            /\ ~Set(w, E_BIT04) /\ Set(w, E_BIT05) /\ ~Set(w, E_BIT06) /\ Set(w, E_BIT08)
            /\ Set(w, E_BIT14)
      [] k = 6 ->
            Set(w, E_BIT00) /\ Set(w, E_BIT01) /\ ~Set(w, E_BIT02) /\ ~Set(w, E_BIT03)
            /\ Set(w, E_BIT04) /\ Set(w, E_BIT05) /\ ~Set(w, E_BIT06) /\ Set(w, E_BIT08)
            /\ Set(w, E_BIT14)
      [] k = 7 ->
            Set(w, E_BIT00) /\ Set(w, E_BIT01) /\ Set(w, E_BIT02) /\ ~Set(w, E_BIT03)
            /\ Set(w, E_BIT04) /\ Set(w, E_BIT05) /\ ~Set(w, E_BIT06) /\ Set(w, E_BIT08)
            /\ ~Set(w, E_BIT14)
      [] k = 8 ->
            Set(w, E_BIT00) /\ Set(w, E_BIT01) /\ Set(w, E_BIT02) /\ ~Set(w, E_BIT03)
            /\ Set(w, E_BIT04) /\ ~Set(w, E_BIT05) /\ ~Set(w, E_BIT06) /\ Set(w, E_BIT08)
            /\ ~Set(w, E_BIT14)
      [] k = 9 ->
            Set(w, E_BIT00) /\ Set(w, E_BIT01) /\ Set(w, E_BIT02) /\ Set(w, E_BIT03)
            /\ ~Set(w, E_BIT04) /\ ~Set(w, E_BIT05) /\ ~Set(w, E_BIT06) /\ Set(w, E_BIT08)
            /\ ~Set(w, E_BIT14)
      [] k = 10 ->
            Set(w, E_BIT00) /\ Set(w, E_BIT01) /\ Set(w, E_BIT02) /\ Set(w, E_BIT03)
            /\ Set(w, E_BIT04) /\ ~Set(w, E_BIT05) /\ ~Set(w, E_BIT06) /\ Set(w, E_BIT08)
            /\ ~Set(w, E_BIT14)
      [] k = 11 ->
            ~Set(w, E_BIT00) /\ ~Set(w, E_BIT01) /\ ~Set(w, E_BIT02) /\ Set(w, E_BIT03)
            /\ ~Set(w, E_BIT04) /\ ~Set(w, E_BIT05) /\ ~Set(w, E_BIT06) /\ Set(w, E_BIT08)
            /\ ~Set(w, E_BIT14)

RECURSIVE ScanStates(_, _)
\* checkEPOSstate's chain of if statements from the k-th on: the first state whose
\* test holds is returned, -2 when none does
ScanStates(k, w) ==
    IF k > 11 THEN -2
    ELSE IF StateTest(k, w) THEN k
    ELSE ScanStates(k + 1, w)

\* Seeded fault: the chain of tests without its first test (state 'start').
DecodeState_skipStart(w) == ScanStates(1, w)

\* the state ordinal checkEPOSstate returns for status word w
DecodeState(w) == ScanStates(0, w)

\* The status-word patterns as the comments above each test document them
\* ("w == x0xx xxx1  x010 0001"): the tested bits, and each state's required values.
StateMask == \h417F

StatePattern(k) ==
    CASE k = 0 -> \h0000
      [] k = 1 -> \h0100
      [] k = 2 -> \h0140
      [] k = 3 -> \h0121
      [] k = 4 -> \h0123
      [] k = 5 -> \h4123
      [] k = 6 -> \h4133
      [] k = 7 -> \h0137
      [] k = 8 -> \h0117
      [] k = 9 -> \h010F
      [] k = 10 -> \h011F
      [] k = 11 -> \h0108

-----------------------------------------------------------------------------
(* EPOS abort codes, Communication Guide 6.4.                              *)

E_NOERR == 0  \* 0x00000000
E_TOGGLE == 84082688  \* 0x05030000
E_SDOTOUT == 84148224  \* 0x05040000
E_CMDUKNOWN == 84148225  \* 0x05040001
E_INVBLKSIZE == 84148226  \* 0x05040002
E_INVSEQ == 84148227  \* 0x05040003
E_CRCERR == 84148228  \* 0x05040004
E_OUTMEM == 84148229  \* 0x05040005
E_NOACCES == 100728832  \* 0x06010000
E_WRITEONLY == 100728833  \* 0x06010001
E_READONLY == 100728834  \* 0x06010002
E_ONOTEX == 100794368  \* 0x06020000
E_PDOMAP == 100925505  \* 0x06040041
E_PDOLEN == 100925506  \* 0x06040042
E_PARAMINCOMP == 100925507  \* 0x06040043
E_INTINCOMP == 100925511  \* 0x06040047
E_HWERR == 101056512  \* 0x06060000
E_SVCPAR == 101122064  \* 0x06070010
E_SVCPARHI == 101122066  \* 0x06070012
E_SVCPARLO == 101122067  \* 0x06070013
E_SUBINEX == 101253137  \* 0x06090011
E_PRAGNEX == 101253168  \* 0x06090030
E_PARHIGH == 101253169  \* 0x06090031
E_PARLOW == 101253170  \* 0x06090032
E_PARREL == 101253174  \* 0x06090036
E_GENERR == 134217728  \* 0x08000000
E_TFERSTORE == 134217760  \* 0x08000020
E_LOCALCTL == 134217761  \* 0x08000021
E_DEVSTAT == 134217762  \* 0x08000022
E_NMTSTATE == 251723712  \* 0x0F00FFC0
E_RS232 == 251723711  \* 0x0F00FFBF
E_PASSWD == 251723710  \* 0x0F00FFBE
E_NSERV == 251723708  \* 0x0F00FFBC
E_NODEID == 251723705  \* 0x0F00FFB9

\* the fixed catalogue of CANopen and maxon abort codes (all but E_NOERR)
Catalogue ==
    { E_TOGGLE, E_SDOTOUT, E_CMDUKNOWN, E_INVBLKSIZE, E_INVSEQ, E_CRCERR, E_OUTMEM,
      E_NOACCES, E_WRITEONLY, E_READONLY, E_ONOTEX, E_PDOMAP, E_PDOLEN, E_PARAMINCOMP,
      E_INTINCOMP, E_HWERR, E_SVCPAR, E_SVCPARHI, E_SVCPARLO, E_SUBINEX, E_PRAGNEX,
      E_PARHIGH, E_PARLOW, E_PARREL, E_GENERR, E_TFERSTORE, E_LOCALCTL, E_DEVSTAT,
      E_NMTSTATE, E_RS232, E_PASSWD, E_NSERV, E_NODEID }

\* Seeded fault: the switch's default case returns 0, so that only the codes the
\* switch names give -1.
checkEPOSerror_defaultOk(dev) ==
    IF dev.E_error \in { DWORD(c) : c \in { E_ONOTEX, E_SUBINEX, E_OUTMEM, E_NOACCES,
                             E_WRITEONLY, E_READONLY, E_PARAMINCOMP, E_INTINCOMP, E_HWERR,
                             E_PRAGNEX, E_PARHIGH, E_PARLOW, E_PARREL, E_NMTSTATE, E_RS232,
                             E_PASSWD, E_NSERV, E_NODEID } }
    THEN -1 ELSE 0

\* check the device's E_error for an EPOS error code: 0 for E_NOERR, else -1
\* (every other case of the switch only prints, then falls to the final return)
checkEPOSerror(dev) == IF dev.E_error = DWORD(E_NOERR) THEN 0 ELSE -1

-----------------------------------------------------------------------------
(* Frames and device records.                                              *)

\* C's f.Data[i]
B(f, i) == f.Data[i + 1]

\* a CAN frame (CanTxMsgTypeDef / CanRxMsgTypeDef): the fields the driver uses
Frame(id, dlc, data) ==
    [StdId |-> id, IDE |-> "CAN_ID_STD", RTR |-> "CAN_RTR_DATA", DLC |-> dlc, Data |-> data]

\* What malloc'ed memory may hold: openEPOS initialises only the node id and the
\* five receive flags, every other field starts with whatever the heap held.
\* Two heap contents are drawn: all zero, and a pattern left by earlier use.
Garbage == {"zero", "used"}

GarbageFrame(g) ==
    IF g = "zero" THEN Frame(0, 0, <<0, 0, 0, 0, 0, 0, 0, 0>>)
    ELSE Frame(\h7FF, 8, <<\h80, \hFF, \hFF, \hFF, \h31, \h00, \h09, \h06>>)

\* establish the connection to EPOS: the epos_t that openEPOS returns
openEPOS(ID, g) ==
    [ Node_ID |-> ID,
      TxMessage |-> GarbageFrame(g),
      SDOMsg |-> GarbageFrame(g),
      ErrFlag |-> (g = "used"),
      Dev_Err |-> IF g = "zero" THEN 0 ELSE \h8111,
      SDORcvFlag |-> FALSE,
      PDO1Msg |-> GarbageFrame(g), PDO1RcvFlag |-> FALSE,
      PDO2Msg |-> GarbageFrame(g), PDO2RcvFlag |-> FALSE,
      PDO3Msg |-> GarbageFrame(g), PDO3RcvFlag |-> FALSE,
      PDO4Msg |-> GarbageFrame(g), PDO4RcvFlag |-> FALSE,
      RxPosition |-> IF g = "zero" THEN 0 ELSE -559038737,
      RxVelocity |-> IF g = "zero" THEN 0 ELSE 195948557,
      E_error |-> IF g = "zero" THEN DWORD(0) ELSE DWORD(E_PARHIGH) ]

-----------------------------------------------------------------------------
(* The inbound dispatcher.                                                 *)

\* Seeded fault: the SDO branch tests the request identifier (0x600) instead of the
\* response identifier (0x580).
Classify_sdoRequestId(dev, f) ==
    IF f.StdId = dev.Node_ID + \h180 THEN "PDO1"
    ELSE IF f.StdId = dev.Node_ID + \h280 THEN "PDO2"
    ELSE IF f.StdId = dev.Node_ID + \h380 THEN "PDO3"
    ELSE IF f.StdId = dev.Node_ID + \h480 THEN "PDO4"
    ELSE IF f.StdId = dev.Node_ID + \h600 THEN "SDO"
    ELSE IF f.StdId = dev.Node_ID + \h80 THEN "ERR"
    ELSE "none"

\* Seeded fault: the channel offsets are 0x80 apart, less than the range of a node id.
Classify_narrowOffsets(dev, f) ==
    IF f.StdId = dev.Node_ID + \h180 THEN "PDO1"
    ELSE IF f.StdId = dev.Node_ID + \h200 THEN "PDO2"
    ELSE IF f.StdId = dev.Node_ID + \h280 THEN "PDO3"
    ELSE IF f.StdId = dev.Node_ID + \h300 THEN "PDO4"
    ELSE IF f.StdId = dev.Node_ID + \h380 THEN "SDO"
    ELSE IF f.StdId = dev.Node_ID + \h80 THEN "ERR"
    ELSE "none"

\* the if / else-if chain of processCANMsg for one device: the channel whose
\* identifier test holds first, "none" when no test holds
Classify(dev, f) ==
    IF f.StdId = dev.Node_ID + \h180 THEN "PDO1"
    ELSE IF f.StdId = dev.Node_ID + \h280 THEN "PDO2"
    ELSE IF f.StdId = dev.Node_ID + \h380 THEN "PDO3"
    ELSE IF f.StdId = dev.Node_ID + \h480 THEN "PDO4"
    ELSE IF f.StdId = dev.Node_ID + \h580 THEN "SDO"
    ELSE IF f.StdId = dev.Node_ID + \h80 THEN "ERR"
    ELSE "none"

\* Seeded fault: an emergency frame is also stored as the SDO response.
Deliver_errorAsResponse(dev, ch, f) ==
    CASE ch = "PDO1" -> [dev EXCEPT !.PDO1Msg = f, !.PDO1RcvFlag = TRUE]
      [] ch = "PDO2" -> [dev EXCEPT !.PDO2Msg = f, !.PDO2RcvFlag = TRUE]
      [] ch = "PDO3" -> [dev EXCEPT !.PDO3Msg = f, !.PDO3RcvFlag = TRUE]
      [] ch = "PDO4" -> [dev EXCEPT !.PDO4Msg = f, !.PDO4RcvFlag = TRUE]
      [] ch = "SDO" -> [dev EXCEPT !.SDOMsg = f, !.SDORcvFlag = TRUE]
      [] ch = "ERR" -> [dev EXCEPT !.Dev_Err = B(f, 1) * 256 + B(f, 0), !.ErrFlag = TRUE,
                                   !.SDOMsg = f, !.SDORcvFlag = TRUE]

\* the body of the branch that matched: the frame is copied into the device's slot
\* and the slot's flag is raised (the error branch decodes the 16-bit error code)
Deliver(dev, ch, f) ==
    CASE ch = "PDO1" -> [dev EXCEPT !.PDO1Msg = f, !.PDO1RcvFlag = TRUE]
      [] ch = "PDO2" -> [dev EXCEPT !.PDO2Msg = f, !.PDO2RcvFlag = TRUE]
      [] ch = "PDO3" -> [dev EXCEPT !.PDO3Msg = f, !.PDO3RcvFlag = TRUE]
      [] ch = "PDO4" -> [dev EXCEPT !.PDO4Msg = f, !.PDO4RcvFlag = TRUE]
      [] ch = "SDO" -> [dev EXCEPT !.SDOMsg = f, !.SDORcvFlag = TRUE]
      [] ch = "ERR" -> [dev EXCEPT !.Dev_Err = B(f, 1) * 256 + B(f, 0), !.ErrFlag = TRUE]

RECURSIVE ScanDevices_noBreak(_, _, _)
\* Seeded fault: the break is missing, the scan goes on after a delivery.
ScanDevices_noBreak(ep, f, i) ==
    IF i > Len(ep) THEN ep
    ELSE IF Classify(ep[i], f) # "none"
         THEN ScanDevices_noBreak([ep EXCEPT ![i] = Deliver(ep[i], Classify(ep[i], f), f)],
                                  f, i + 1)
         ELSE ScanDevices_noBreak(ep, f, i + 1)

RECURSIVE ScanDevices_keepUnclaimed(_, _, _)
\* Seeded fault: a frame that no device claims is kept as the SDO response of the
\* last device instead of being dropped.
ScanDevices_keepUnclaimed(ep, f, i) ==
    IF i > Len(ep) THEN [ep EXCEPT ![Len(ep)] = Deliver(ep[Len(ep)], "SDO", f)]
    ELSE IF Classify(ep[i], f) # "none"
         THEN [ep EXCEPT ![i] = Deliver(ep[i], Classify(ep[i], f), f)]
         ELSE ScanDevices_keepUnclaimed(ep, f, i + 1)

RECURSIVE ScanDevices(_, _, _)
\* the for loop of processCANMsg over the device array from index i on: the first
\* device that claims the frame gets it (break); a frame nobody claims is dropped
ScanDevices(ep, f, i) ==
    IF i > Len(ep) THEN ep
    ELSE IF Classify(ep[i], f) # "none"
         THEN [ep EXCEPT ![i] = Deliver(ep[i], Classify(ep[i], f), f)]
         ELSE ScanDevices(ep, f, i + 1)

RECURSIVE DrainBuffer(_, _)
\* the while (pCANMsg > 0) loop: the frame at CANMsgBuf[pCANMsg-1] is dispatched,
\* then pCANMsg is decremented
DrainBuffer(ep, buf) ==
    IF Len(buf) = 0 THEN ep
    ELSE DrainBuffer(ScanDevices(ep, buf[Len(buf)], 1), SubSeq(buf, 1, Len(buf) - 1))

\* Seeded fault: the position and velocity are taken from bytes 4..7, where an SDO
\* response carries its value, instead of bytes 2..5.
DecodePDO_sdoOffset(dev) ==
    LET d3 == IF dev.PDO3RcvFlag
              THEN [dev EXCEPT !.RxPosition = LE32(B(dev.PDO3Msg, 4), B(dev.PDO3Msg, 5),
                                                   B(dev.PDO3Msg, 6), B(dev.PDO3Msg, 7)),
                               !.PDO3RcvFlag = FALSE]
              ELSE dev
    IN  IF d3.PDO4RcvFlag
        THEN [d3 EXCEPT !.RxVelocity = LE32(B(d3.PDO4Msg, 4), B(d3.PDO4Msg, 5),
                                            B(d3.PDO4Msg, 6), B(d3.PDO4Msg, 7)),
                        !.PDO4RcvFlag = FALSE]
        ELSE d3

\* processPDOMessage for one device
DecodePDO(dev) ==
    LET d3 == IF dev.PDO3RcvFlag
              THEN [dev EXCEPT !.RxPosition = LE32(B(dev.PDO3Msg, 2), B(dev.PDO3Msg, 3),
                                                   B(dev.PDO3Msg, 4), B(dev.PDO3Msg, 5)),
                               !.PDO3RcvFlag = FALSE]
              ELSE dev
    IN  IF d3.PDO4RcvFlag
        THEN [d3 EXCEPT !.RxVelocity = LE32(B(d3.PDO4Msg, 2), B(d3.PDO4Msg, 3),
                                            B(d3.PDO4Msg, 4), B(d3.PDO4Msg, 5)),
                        !.PDO4RcvFlag = FALSE]
        ELSE d3

\* processPDOMessage: every device's pending channel 3 / 4 payload is decoded
\* Seeded fault: the decode pass clears the SDO flag along with the PDO flags.
processPDOMessage_clearsSDO(ep) ==
    [i \in 1..Len(ep) |-> [DecodePDO(ep[i]) EXCEPT !.SDORcvFlag = FALSE]]

processPDOMessage(ep) == [i \in 1..Len(ep) |-> DecodePDO(ep[i])]

\* processCANMsg: drain the buffer, then the PDO decode pass
processCANMsg(ep, buf) == processPDOMessage(DrainBuffer(ep, buf))

\* whether frame f is claimed as an SDO response by some device of ep
IsSDOFor(ep, f) == \E i \in 1..Len(ep) : f.StdId = ep[i].Node_ID + \h580

\* HAL_CAN_RxCpltCallback with the received frame f: the frame is stored at
\* CANMsgBuf[pCANMsg], pCANMsg is incremented and processCANMsg drains the buffer.
\* (CAN_RxReady, which nothing in the driver reads, is left out.)
HAL_CAN_RxCpltCallback(f) ==
    /\ epos' = processCANMsg(epos, Append(CANMsgBuf, f))
    /\ CANMsgBuf' = <<>>
    /\ pCANMsg' = 0
    /\ hist' = [hist EXCEPT !.nrx = @ + 1, !.lastRx = f,
                            !.sdoDispatched = @ \/ IsSDOFor(epos, f)]

-----------------------------------------------------------------------------
(* The SDO engine.                                                         *)

\* the calling contexts: 1 is the foreground, 2 a context that preempts it
Callers == {1, 2}

\* dictionary entries the callers use: status word, profile velocity
Indices == {\h6041, \h6081}

\* values written, as WORD param[2] (param[0] the low word): 500000, 0xFFFFFFFF
WriteParams == {<<\hA120, \h0007>>, <<\hFFFF, \hFFFF>>}

\* no frame
NoFrame == Frame(-1, 0, <<>>)

\* a call that has not been made.  n is the local n (sendCom's result), answer the
\* caller's DWORD that ReadObject's param points to (<<>> while not written), seen
\* the content of the SDO slot when readAnswer inspected it
NoCall ==
    [op |-> "none", dev |-> 0, Index |-> 0, SubIndex |-> 0, param |-> <<>>,
     n |-> 0, answer |-> <<>>, seen |-> NoFrame, ret |-> 0]

\* the request frame ReadObject builds in the device's TxMessage
ReadRequest(dev, Index, SubIndex) ==
    Frame(\h600 + dev.Node_ID, 8,
          <<\h40, BitAnd(Index, \hFF), BitAnd(Index, \hFF00) \div 256, SubIndex, 0, 0, 0, 0>>)

\* Seeded fault: the value's high word is sent first (bytes 4..5), the low word last.
WriteRequest_highWordFirst(dev, Index, SubIndex, param) ==
    Frame(\h600 + dev.Node_ID, 8,
          <<\h22, BitAnd(Index, \hFF), BitAnd(Index, \hFF00) \div 256, SubIndex,
            BitAnd(param[2], \hFF), BitAnd(param[2], \hFF00) \div 256,
            BitAnd(param[1], \hFF), BitAnd(param[1], \hFF00) \div 256>>)

\* the request frame WriteObject builds in the device's TxMessage; param is
\* WORD param[2] as the pair <<param[0], param[1]>>
WriteRequest(dev, Index, SubIndex, param) ==
    Frame(\h600 + dev.Node_ID, 8,
          <<\h22, BitAnd(Index, \hFF), BitAnd(Index, \hFF00) \div 256, SubIndex,
            BitAnd(param[1], \hFF), BitAnd(param[1], \hFF00) \div 256,
            BitAnd(param[2], \hFF), BitAnd(param[2], \hFF00) \div 256>>)

\* Seeded fault: only the low word of the response value is delivered.
AnswerValue_lowWord(m) == <<B(m, 4), B(m, 5), 0, 0>>

\* the DWORD ReadObject stores through param: bytes 4..7 of the SDO slot m
AnswerValue(m) == U32(LE32(B(m, 4), B(m, 5), B(m, 6), B(m, 7)))

\* context c runs: the foreground runs only while the preempting context is idle
Runs(c) == c = 2 \/ pc[2] = "idle"

\* ReadObject up to its call of sendCom: SDOBusy is raised and the request frame is
\* built in the device's TxMessage.  *param is the caller's DWORD, not yet written.
ReadObject_build(c, i, Index, SubIndex) ==
    /\ Runs(c) /\ pc[c] = "idle"
    /\ SDOBusy' = TRUE
    /\ epos' = [epos EXCEPT ![i].TxMessage = ReadRequest(epos[i], Index, SubIndex)]
    /\ call' = [call EXCEPT ![c] = [NoCall EXCEPT !.op = "read", !.dev = i,
                                       !.Index = Index, !.SubIndex = SubIndex]]
    /\ pc' = [pc EXCEPT ![c] = "sendCom"]
    /\ UNCHANGED <<hcan, CANMsgBuf, pCANMsg, CAN_TxReady, mailbox, bus, hist, chk, seq>>

\* WriteObject up to its call of sendCom: the request frame is built in TxMessage
WriteObject_build(c, i, Index, SubIndex, param) ==
    /\ Runs(c) /\ pc[c] = "idle"
    /\ epos' = [epos EXCEPT ![i].TxMessage = WriteRequest(epos[i], Index, SubIndex, param)]
    /\ call' = [call EXCEPT ![c] = [NoCall EXCEPT !.op = "write", !.dev = i,
                                       !.Index = Index, !.SubIndex = SubIndex,
                                       !.param = param]]
    /\ pc' = [pc EXCEPT ![c] = "sendCom"]
    /\ UNCHANGED <<hcan, CANMsgBuf, pCANMsg, SDOBusy, CAN_TxReady, mailbox, bus, hist, chk, seq>>

\* sendCom, HAL_CAN_Transmit_IT returns HAL_OK: the frame the handle's pTxMsg points
\* to is in a transmit mailbox, and sendCom goes on to wait for CAN_TxReady
sendCom_transmit(c) ==
    /\ Runs(c) /\ pc[c] = "sendCom"
    /\ mailbox' = Append(mailbox, epos[hcan.pTxMsg].TxMessage)
    /\ pc' = [pc EXCEPT ![c] = "txwait"]
    /\ UNCHANGED <<epos, hcan, CANMsgBuf, pCANMsg, SDOBusy, CAN_TxReady, call, bus, hist, chk, seq>>

\* Seeded fault: sendCom's failure is ignored and the call goes on to readAnswer.
sendCom_fail_ignored(c) ==
    /\ Runs(c) /\ pc[c] = "sendCom"
    /\ call' = [call EXCEPT ![c].n = -1]
    /\ pc' = [pc EXCEPT ![c] = "readAnswer"]
    /\ UNCHANGED <<epos, hcan, CANMsgBuf, pCANMsg, SDOBusy, CAN_TxReady, mailbox, bus, hist, chk, seq>>

\* sendCom, HAL_CAN_Transmit_IT does not return HAL_OK: sendCom returns -1, and
\* ReadObject / WriteObject return -1 at once
sendCom_fail(c) ==
    /\ Runs(c) /\ pc[c] = "sendCom"
    /\ call' = [call EXCEPT ![c].n = -1, ![c].ret = -1]
    /\ pc' = [pc EXCEPT ![c] = "done"]
    /\ UNCHANGED <<epos, hcan, CANMsgBuf, pCANMsg, SDOBusy, CAN_TxReady, mailbox, bus, hist, chk, seq>>

\* sendCom's while (CAN_TxReady != true) loop ends: CAN_TxReady is reset and
\* sendCom returns 1
sendCom_ready(c) ==
    /\ Runs(c) /\ pc[c] = "txwait"
    /\ CAN_TxReady = TRUE
    /\ CAN_TxReady' = FALSE
    /\ call' = [call EXCEPT ![c].n = 1]
    /\ pc' = [pc EXCEPT ![c] = "readAnswer"]
    /\ UNCHANGED <<epos, hcan, CANMsgBuf, pCANMsg, SDOBusy, mailbox, bus, hist, chk, seq>>

\* readAnswer's first statement: epos->E_error = 0x00
readAnswer_clear(c) ==
    /\ Runs(c) /\ pc[c] = "readAnswer"
    /\ epos' = [epos EXCEPT ![call[c].dev].E_error = DWORD(0)]
    /\ pc' = [pc EXCEPT ![c] = "poll"]
    /\ UNCHANGED <<hcan, CANMsgBuf, pCANMsg, SDOBusy, CAN_TxReady, call, mailbox, bus, hist, chk, seq>>

\* Seeded fault: the wait loop gives up after a delay, whether or not the flag is set.
readAnswer_poll_timeout(c) ==
    /\ Runs(c) /\ pc[c] = "poll"
    /\ epos' = [epos EXCEPT ![call[c].dev].SDORcvFlag = FALSE]
    /\ pc' = [pc EXCEPT ![c] = "check"]
    /\ UNCHANGED <<hcan, CANMsgBuf, pCANMsg, SDOBusy, CAN_TxReady, call, mailbox, bus, hist, chk, seq>>

\* readAnswer's while (epos->SDORcvFlag != true) loop ends, and the flag is cleared.
\* While the flag is false the loop only delays: the call stays here.
readAnswer_poll(c) ==
    /\ Runs(c) /\ pc[c] = "poll"
    /\ epos[call[c].dev].SDORcvFlag = TRUE
    /\ epos' = [epos EXCEPT ![call[c].dev].SDORcvFlag = FALSE]
    /\ pc' = [pc EXCEPT ![c] = "check"]
    /\ UNCHANGED <<hcan, CANMsgBuf, pCANMsg, SDOBusy, CAN_TxReady, call, mailbox, bus, hist, chk, seq>>

\* the value readAnswer leaves in E_error given the SDO slot it reads: the
\* "check for error code" statement, on top of the 0 stored at entry
AbortCode(dev) ==
    IF B(dev.SDOMsg, 0) = \h80
    THEN U32(LE32(B(dev.SDOMsg, 4), B(dev.SDOMsg, 5), B(dev.SDOMsg, 6), B(dev.SDOMsg, 7)))
    ELSE dev.E_error

\* readAnswer's check for the abort marker; readAnswer returns 1
readAnswer_check(c) ==
    /\ Runs(c) /\ pc[c] = "check"
    /\ epos' = [epos EXCEPT ![call[c].dev].E_error = AbortCode(epos[call[c].dev])]
    /\ call' = [call EXCEPT ![c].seen = epos[call[c].dev].SDOMsg]
    /\ pc' = [pc EXCEPT ![c] = "result"]
    /\ UNCHANGED <<hcan, CANMsgBuf, pCANMsg, SDOBusy, CAN_TxReady, mailbox, bus, hist, chk, seq>>

\* the value readAnswer returns, with or without the abort marker
readAnswer_ret == 1

\* ReadObject after readAnswer: *param is set from bytes 4..7 of the SDO slot,
\* SDOBusy is lowered and readAnswer's result is returned
ReadObject_result(c) ==
    /\ Runs(c) /\ pc[c] = "result" /\ call[c].op = "read"
    /\ call' = [call EXCEPT
                  ![c].answer = AnswerValue(epos[call[c].dev].SDOMsg),
                  ![c].ret = readAnswer_ret]
    /\ SDOBusy' = FALSE
    /\ pc' = [pc EXCEPT ![c] = "done"]
    /\ UNCHANGED <<epos, hcan, CANMsgBuf, pCANMsg, CAN_TxReady, mailbox, bus, hist, chk, seq>>

\* WriteObject after readAnswer: readAnswer never returns < 0, so the result is
\* checkEPOSerror's
WriteObject_result(c) ==
    /\ Runs(c) /\ pc[c] = "result" /\ call[c].op = "write"
    /\ call' = [call EXCEPT ![c].ret = checkEPOSerror(epos[call[c].dev])]
    /\ pc' = [pc EXCEPT ![c] = "done"]
    /\ UNCHANGED <<epos, hcan, CANMsgBuf, pCANMsg, SDOBusy, CAN_TxReady, mailbox, bus, hist, chk, seq>>

\* the caller takes the result; the context is free for its next call
Return(c) ==
    /\ Runs(c) /\ pc[c] = "done"
    /\ pc' = [pc EXCEPT ![c] = "idle"]
    /\ call' = [call EXCEPT ![c] = NoCall]
    /\ UNCHANGED <<epos, hcan, CANMsgBuf, pCANMsg, SDOBusy, CAN_TxReady, mailbox, bus, hist, chk, seq>>

-----------------------------------------------------------------------------
(* The transport and the device (external collaborators).                  *)

\* the transport has put the oldest mailbox frame on the bus and raises the
\* transmit-complete interrupt: HAL_CAN_TxCpltCallback sets CAN_TxReady
HAL_CAN_TxCpltCallback ==
    /\ mailbox # <<>>
    /\ CAN_TxReady' = TRUE
    /\ bus' = Append(bus, Head(mailbox))
    /\ mailbox' = Tail(mailbox)
    /\ UNCHANGED <<epos, hcan, CANMsgBuf, pCANMsg, SDOBusy, pc, call, hist, chk, seq>>

\* bytes 4..7 of the responses the device sends in Spec and SpecTwo: after the abort
\* marker an abort code or 0, otherwise a value (0, 500000, 0xFFFFFFFF)
AbortPayloads == {DWORD(E_PRAGNEX), DWORD(0)}
ValuePayloads == {DWORD(0), DWORD(500000), U32(-1)}

\* the device's response to request frame r: the opcode (abort, or the expedited
\* read / write acknowledge), the request's index and subindex echoed, four bytes
Response(r, abort, p) ==
    Frame(r.StdId - \h600 + \h580, 8,
          << IF abort THEN \h80 ELSE IF B(r, 0) = \h40 THEN \h43 ELSE \h60,
             B(r, 1), B(r, 2), B(r, 3), p[1], p[2], p[3], p[4] >>)

\* the device answers the oldest request on the bus and the receive interrupt
\* delivers its response
DeviceAnswer ==
    /\ bus # <<>>
    /\ hist.nrx < MaxRx
    /\ \E abort \in BOOLEAN :
         \E p \in (IF abort THEN AbortPayloads ELSE ValuePayloads) :
            HAL_CAN_RxCpltCallback(Response(Head(bus), abort, p))
    /\ bus' = Tail(bus)
    /\ UNCHANGED <<hcan, SDOBusy, CAN_TxReady, pc, call, mailbox, chk, seq>>

\* payloads of the frames that arrive unrequested
AsyncData ==
    { <<\h80, \h10, \h20, \hA1, \h07, \hFF, \h01, \h00>> }

\* identifiers of frames that arrive unrequested at a bus with the devices ep: the
\* emergency and the four PDO identifiers of each device, and one that no device claims
AsyncIds(ep) ==
    { ep[i].Node_ID + off : i \in 1..Len(ep), off \in {\h80, \h180, \h280, \h380, \h480} }
    \cup {\h77F}

\* a PDO, emergency or foreign frame arrives
RxAsync ==
    /\ hist.nrx < MaxRx
    /\ \E id \in AsyncIds(epos), d \in AsyncData : HAL_CAN_RxCpltCallback(Frame(id, 8, d))
    /\ UNCHANGED <<hcan, SDOBusy, CAN_TxReady, pc, call, mailbox, bus, chk, seq>>

-----------------------------------------------------------------------------
(* Specifications.                                                         *)

\* no call of checkEPOSstate
ChkIdle == [pc |-> "idle", n |-> 0, answer |-> <<>>, w |-> 0, ret |-> 0]

\* no call of a sequencing function
SeqIdle == [fn |-> "none", pc |-> "idle"]

\* everything but the device array, before the first call
EngineIdle ==
    /\ hcan = [pTxMsg |-> 1]
    /\ CANMsgBuf = <<>> /\ pCANMsg = 0
    /\ SDOBusy = FALSE /\ CAN_TxReady = FALSE
    /\ pc = [c \in Callers |-> "idle"]
    /\ call = [c \in Callers |-> NoCall]
    /\ mailbox = <<>> /\ bus = <<>>
    /\ hist = [nrx |-> 0, lastRx |-> NoFrame, sdoDispatched |-> FALSE]
    /\ seq = SeqIdle

\* one device has been opened on the handle
Init ==
    /\ \E ID \in {1, 127}, g \in Garbage : epos = <<openEPOS(ID, g)>>
    /\ EngineIdle
    /\ chk = ChkIdle

\* the steps of calling context c
CallerStep(c) ==
    \/ \E i \in 1..Len(epos), Index \in Indices : ReadObject_build(c, i, Index, 0)
    \/ \E i \in 1..Len(epos), param \in WriteParams : WriteObject_build(c, i, \h6081, 0, param)
    \/ sendCom_transmit(c)
    \/ sendCom_fail(c)
    \/ sendCom_ready(c)
    \/ readAnswer_clear(c)
    \/ readAnswer_poll(c)
    \/ readAnswer_check(c)
    \/ ReadObject_result(c)
    \/ WriteObject_result(c)
    \/ Return(c)

Environment == HAL_CAN_TxCpltCallback \/ DeviceAnswer \/ RxAsync

Next == CallerStep(1) \/ Environment

\* one foreground caller, the interrupts and the device
Spec == Init /\ [][Next]_vars

NextTwo == (\E c \in Callers : CallerStep(c)) \/ HAL_CAN_TxCpltCallback \/ DeviceAnswer

\* a second context issues SDO calls too, preempting the foreground (SDO traffic only)
SpecTwo == Init /\ [][NextTwo]_vars

-----------------------------------------------------------------------------
(* The abort catalogue: SDO writes that the device aborts.                 *)

\* the device aborts the oldest request on the bus with a code of the catalogue
DeviceAbort ==
    /\ bus # <<>>
    /\ hist.nrx < MaxRx
    /\ \E c \in Catalogue : HAL_CAN_RxCpltCallback(Response(Head(bus), TRUE, DWORD(c)))
    /\ bus' = Tail(bus)
    /\ UNCHANGED <<hcan, SDOBusy, CAN_TxReady, pc, call, mailbox, chk, seq>>

NextAbort ==
    \/ \E i \in 1..Len(epos), param \in WriteParams : WriteObject_build(1, i, \h6081, 0, param)
    \/ sendCom_transmit(1)
    \/ sendCom_ready(1)
    \/ readAnswer_clear(1)
    \/ readAnswer_poll(1)
    \/ readAnswer_check(1)
    \/ WriteObject_result(1)
    \/ Return(1)
    \/ HAL_CAN_TxCpltCallback
    \/ DeviceAbort

\* the foreground writes, the device aborts every write with a catalogue code
SpecAbort == Init /\ [][NextAbort]_vars

-----------------------------------------------------------------------------
(* The dispatcher alone, for every node id.                                *)

\* CANopen node ids
NodeIds == 1..127

\* payloads of the frames dispatched in SpecDispatch
DispatchData ==
    { <<\h80, \h41, \h60, \h00, \h30, \h00, \h09, \h06>>,
      <<\h43, \h10, \h20, \hA1, \h07, \hFF, \h01, \h00>> }

\* identifiers of the frames dispatched in SpecDispatch: the six offsets of each
\* device, and one that no device claims
DispatchIds(ep) ==
    { ep[i].Node_ID + off : i \in 1..Len(ep),
                            off \in {\h80, \h180, \h280, \h380, \h480, \h580} }
    \cup {\h77F}

\* two devices with distinct node ids have been opened
InitDispatch ==
    /\ \E a \in NodeIds, g \in Garbage :
          epos = <<openEPOS(a, g), openEPOS((a % 127) + 1, g)>>
    /\ EngineIdle
    /\ chk = ChkIdle

\* a frame arrives
RxAny ==
    /\ hist.nrx < MaxDispatch
    /\ \E id \in DispatchIds(epos), d \in DispatchData : HAL_CAN_RxCpltCallback(Frame(id, 8, d))
    /\ UNCHANGED <<hcan, SDOBusy, CAN_TxReady, pc, call, mailbox, bus, chk, seq>>

SpecDispatch == InitDispatch /\ [][RxAny]_vars

-----------------------------------------------------------------------------
(* The status-word decoder, for every status word.                         *)

\* readStatusword given ReadObject's result n and the DWORD it stored: the value
\* returned and the WORD written to *status (w keeps its value on failure)
readStatusword(n, answer, w) ==
    IF n < 0 THEN [ret |-> -1, status |-> w]
    ELSE [ret |-> 0, status |-> LowWord(answer)]

\* checkEPOSstate: w starts as 0x0, readStatusword is called, its failure gives -1,
\* otherwise the status word is decoded
checkEPOSstate ==
    /\ chk.pc = "readStatusword"
    /\ LET r == readStatusword(chk.n, chk.answer, 0)
       IN  chk' = [chk EXCEPT !.pc = "done", !.w = r.status,
                              !.ret = IF r.ret < 0 THEN -1 ELSE DecodeState(r.status)]
    /\ UNCHANGED <<epos, hcan, CANMsgBuf, pCANMsg, SDOBusy, CAN_TxReady, pc, call,
                   mailbox, bus, hist, seq>>

\* checkEPOSstate is about to decode what ReadObject delivered: any 32-bit answer
\* whose low word is any 16-bit status word, or a failed read
InitDecode ==
    /\ epos = <<openEPOS(1, "zero")>>
    /\ EngineIdle
    /\ \/ \E lo \in 0..255, hi \in 0..255, up \in {0, \hFF} :
             chk = [ChkIdle EXCEPT !.pc = "readStatusword", !.n = 1,
                                   !.answer = <<lo, hi, up, up>>]
       \/ chk = [ChkIdle EXCEPT !.pc = "readStatusword", !.n = -1]

SpecDecode == InitDecode /\ [][checkEPOSstate]_vars

-----------------------------------------------------------------------------
(* One SDO call as a single step, for the functions that issue many calls.  *)
(* out is what the call meets: NoFrame when the transport refuses the      *)
(* request, otherwise the response frame the call consumes.                *)

\* the device record after a call that built request req and met out: sendCom's
\* failure leaves all but TxMessage as it is; otherwise readAnswer zeroes E_error,
\* consumes the response in the SDO slot and stores an abort code
Exchange(dev, req, out) ==
    IF out = NoFrame THEN [dev EXCEPT !.TxMessage = req]
    ELSE LET d == [dev EXCEPT !.TxMessage = req, !.E_error = DWORD(0),
                              !.SDOMsg = out, !.SDORcvFlag = FALSE]
         IN  [d EXCEPT !.E_error = AbortCode(d)]

\* WriteObject(epos, Index, SubIndex, param) meeting out: the device record after
\* the call and the value returned
WriteObject(dev, Index, SubIndex, param, out) ==
    LET d == Exchange(dev, WriteRequest(dev, Index, SubIndex, param), out)
    IN  [dev |-> d, ret |-> IF out = NoFrame THEN -1 ELSE checkEPOSerror(d)]

\* ReadObject(epos, Index, SubIndex, &answer) meeting out: the device record after
\* the call, the value returned and the caller's DWORD (answer before the call)
ReadObject(dev, Index, SubIndex, answer, out) ==
    [dev |-> Exchange(dev, ReadRequest(dev, Index, SubIndex), out),
     ret |-> IF out = NoFrame THEN -1 ELSE readAnswer_ret,
     answer |-> IF out = NoFrame THEN answer ELSE AnswerValue(out)]

\* what a write request r can meet: a refused send, an acknowledge, an abort with a
\* catalogue code, an abort with code 0
WriteOutcomes(r) ==
    {NoFrame, Response(r, FALSE, DWORD(0)), Response(r, TRUE, DWORD(E_PRAGNEX)),
     Response(r, TRUE, DWORD(0))}

\* the requests a sequence of calls put on the bus: tx with request r appended
\* unless the transport refused it
Transmitted(tx, r, out) == IF out = NoFrame THEN tx ELSE Append(tx, r)

-----------------------------------------------------------------------------
(* changeEPOSstate.                                                        *)

\* calls of changeEPOSstate in one run
MaxCalls == 2

\* Seeded fault: fault reset sets bit 15 (firmware spec 8.1.3) instead of bit 7.
ControlWord_bit15(state) ==
    CASE state = 0 -> 6
      [] state = 1 -> 7
      [] state = 2 -> 0
      [] state = 3 -> 4
      [] state = 4 -> 7
      [] state = 5 -> 15
      [] state = 6 -> BitOr(0, E_BIT15)
      [] OTHER -> -1

\* Seeded fault: an unknown target is treated like disable voltage.
ControlWord_defaultWrites(state) ==
    CASE state = 0 -> 6
      [] state = 1 -> 7
      [] state = 3 -> 4
      [] state = 4 -> 7
      [] state = 5 -> 15
      [] state = 6 -> BitOr(0, E_BIT07)
      [] OTHER -> 0

\* dw[0] as the switch of changeEPOSstate leaves it, starting from 0x0000; -1 for
\* the default case, which writes nothing
ControlWord(state) ==
    CASE state = 0 -> ClearBits(BitOr(BitOr(ClearBits(0, E_BIT15), E_BIT02), E_BIT01), E_BIT00)
      [] state = 1 -> BitOr(BitOr(BitOr(ClearBits(0, E_BIT15), E_BIT02), E_BIT01), E_BIT00)
      [] state = 2 -> ClearBits(ClearBits(0, E_BIT15), E_BIT02)
      [] state = 3 -> BitOr(ClearBits(ClearBits(0, E_BIT15), E_BIT02), E_BIT02)
      [] state = 4 -> BitOr(BitOr(BitOr(ClearBits(ClearBits(0, E_BIT15), E_BIT03), E_BIT02),
                                  E_BIT01), E_BIT00)
      [] state = 5 -> BitOr(BitOr(BitOr(BitOr(ClearBits(0, E_BIT15), E_BIT03), E_BIT02),
                                  E_BIT01), E_BIT00)
      [] state = 6 -> BitOr(0, E_BIT07)
      [] OTHER -> -1

\* the targets passed to changeEPOSstate: the seven cases and two unknown states
TargetStates == (-1) .. 7

\* changeEPOSstate(epos, state): the switch sets dw[0] and writes object 0x6040/0;
\* a failed write gives -1, the default case gives -1 without a write.  tx is what
\* this call put on the bus, cw the control word the device holds.
changeEPOSstate(state) ==
    /\ seq.fn = "changeEPOSstate" /\ seq.calls < MaxCalls
    /\ IF ControlWord(state) = -1
       THEN /\ seq' = [seq EXCEPT !.calls = @ + 1, !.state = state, !.ret = -1, !.tx = <<>>]
            /\ UNCHANGED epos
       ELSE \E out \in WriteOutcomes(WriteRequest(epos[1], \h6040, \h00,
                                                  <<ControlWord(state), \h0000>>)) :
               LET r == WriteRequest(epos[1], \h6040, \h00, <<ControlWord(state), \h0000>>)
                   w == WriteObject(epos[1], \h6040, \h00, <<ControlWord(state), \h0000>>, out)
               IN  /\ epos' = [epos EXCEPT ![1] = w.dev]
                   /\ seq' = [seq EXCEPT !.calls = @ + 1, !.state = state,
                                         !.ret = IF w.ret < 0 THEN -1 ELSE 0,
                                         !.tx = Transmitted(<<>>, r, out),
                                         !.cw = IF out # NoFrame /\ B(out, 0) # \h80
                                                THEN ControlWord(state) ELSE @]
    /\ UNCHANGED <<hcan, CANMsgBuf, pCANMsg, SDOBusy, CAN_TxReady, pc, call, mailbox,
                   bus, hist, chk>>

\* control words the device may hold before the first call
HeldControlWords == {\h0000, \h000F, \h8FFF}

InitState ==
    /\ \E g \in Garbage : epos = <<openEPOS(1, g)>>
    /\ hcan = [pTxMsg |-> 1]
    /\ CANMsgBuf = <<>> /\ pCANMsg = 0
    /\ SDOBusy = FALSE /\ CAN_TxReady = FALSE
    /\ pc = [c \in Callers |-> "idle"]
    /\ call = [c \in Callers |-> NoCall]
    /\ mailbox = <<>> /\ bus = <<>>
    /\ hist = [nrx |-> 0, lastRx |-> NoFrame, sdoDispatched |-> FALSE]
    /\ chk = ChkIdle
    /\ \E cw \in HeldControlWords :
          seq = [fn |-> "changeEPOSstate", pc |-> "idle", calls |-> 0, state |-> 0,
                 ret |-> 0, tx |-> <<>>, cw |-> cw]

NextState == \E state \in TargetStates : changeEPOSstate(state)

SpecState == InitState /\ [][NextState]_vars

-----------------------------------------------------------------------------
(* The PDO control frames.                                                 *)

\* Seeded fault: the value goes out most significant byte first.
ValueBytes_bigEndian(v) ==
    <<(v \div 16777216) % 256, (v \div 65536) % 256, (v \div 256) % 256, v % 256>>

\* (uint8_t)(v & 0xFF), (uint8_t)((v >> 8) & 0xFF), (v >> 16), (v >> 24) of an
\* int32_t: the shift is arithmetic, \div rounds down
ValueBytes(v) ==
    <<v % 256, (v \div 256) % 256, (v \div 65536) % 256, (v \div 16777216) % 256>>

\* TxMessage after a PDO function filled it: identifier, DLC and the first DLC
\* data bytes are assigned, the other data bytes keep what they held.  startPDO and
\* stopPDO send identifier 0x0000 with the node id as second byte.
PDOFrame(dev, kind, arg) ==
    LET id == CASE kind \in {"startPDO", "stopPDO"} -> \h0000 - dev.Node_ID
                [] kind \in {"PDOShutDown", "PDOSwitchOn", "PDOEnableOp"} -> \h200
                [] kind = "PDOSwitchProfile" -> \h300
                [] kind = "PDOSetPosition" -> \h400
                [] kind = "PDOSetVelocity" -> \h500
        bytes == CASE kind = "startPDO" -> <<\h01, dev.Node_ID>>
                   [] kind = "stopPDO" -> <<\h80, dev.Node_ID>>
                   [] kind = "PDOShutDown" -> <<\h06, \h00>>
                   [] kind = "PDOSwitchOn" -> <<\h07, \h00>>
                   [] kind = "PDOEnableOp" -> <<\h0F, \h00>>
                   [] kind = "PDOSwitchProfile" -> <<\h0F, \h00, arg>>
                   [] OTHER -> <<\h0F, \h00>> \o ValueBytes(arg)
    IN  Frame(id + dev.Node_ID, Len(bytes),
              [k \in 1..8 |-> IF k <= Len(bytes) THEN bytes[k] ELSE dev.TxMessage.Data[k]])

\* Seeded fault: the argument is recorded before sendCom is called.
PDOSend_recordFirst(kind, arg) ==
    /\ seq.fn = "PDO" /\ seq.calls < MaxCalls
    /\ epos' = [epos EXCEPT ![1].TxMessage = PDOFrame(epos[1], kind, arg)]
    /\ \E ok \in BOOLEAN :
          /\ bus' = IF ok THEN Append(bus, epos'[hcan.pTxMsg].TxMessage) ELSE bus
          /\ seq' = [seq EXCEPT
                       !.calls = @ + 1, !.kind = kind, !.arg = arg, !.sent = ok,
                       !.ret = IF ok THEN 1 ELSE -1,
                       !.isPDO = IF kind = "startPDO" THEN TRUE
                                 ELSE IF kind = "stopPDO" THEN FALSE ELSE @,
                       !.CurProfile = IF kind = "PDOSwitchProfile" THEN arg ELSE @,
                       !.TxVelocity = IF kind = "PDOSetVelocity" THEN arg ELSE @,
                       !.TxPosition = IF kind = "PDOSetPosition" THEN arg ELSE @]
    /\ UNCHANGED <<hcan, CANMsgBuf, pCANMsg, SDOBusy, CAN_TxReady, pc, call, mailbox,
                   hist, chk>>

\* one of startPDO, stopPDO, PDOShutDown, PDOSwitchOn, PDOEnableOp,
\* PDOSwitchProfile, PDOSetVelocity, PDOSetPosition as one step: the frame is built
\* in TxMessage and sendCom is called; when the transport takes the frame (ok) the
\* frame the handle points to goes on the bus, the argument is recorded (isPDO,
\* CurProfile, TxVelocity, TxPosition) and the result is 1, otherwise the result
\* is -1
PDOSend(kind, arg) ==
    /\ seq.fn = "PDO" /\ seq.calls < MaxCalls
    /\ epos' = [epos EXCEPT ![1].TxMessage = PDOFrame(epos[1], kind, arg)]
    /\ \E ok \in BOOLEAN :
          /\ bus' = IF ok THEN Append(bus, epos'[hcan.pTxMsg].TxMessage) ELSE bus
          /\ seq' = [seq EXCEPT
                       !.calls = @ + 1, !.kind = kind, !.arg = arg, !.sent = ok,
                       !.ret = IF ok THEN 1 ELSE -1,
                       !.isPDO = IF ok /\ kind = "startPDO" THEN TRUE
                                 ELSE IF ok /\ kind = "stopPDO" THEN FALSE ELSE @,
                       !.CurProfile = IF ok /\ kind = "PDOSwitchProfile" THEN arg ELSE @,
                       !.TxVelocity = IF ok /\ kind = "PDOSetVelocity" THEN arg ELSE @,
                       !.TxPosition = IF ok /\ kind = "PDOSetPosition" THEN arg ELSE @]
    /\ UNCHANGED <<hcan, CANMsgBuf, pCANMsg, SDOBusy, CAN_TxReady, pc, call, mailbox,
                   hist, chk>>

InitPDO ==
    /\ \E ID \in {1, 127}, g \in Garbage : epos = <<openEPOS(ID, g)>>
    /\ hcan = [pTxMsg |-> 1]
    /\ CANMsgBuf = <<>> /\ pCANMsg = 0
    /\ SDOBusy = FALSE /\ CAN_TxReady = FALSE
    /\ pc = [c \in Callers |-> "idle"]
    /\ call = [c \in Callers |-> NoCall]
    /\ mailbox = <<>> /\ bus = <<>>
    /\ hist = [nrx |-> 0, lastRx |-> NoFrame, sdoDispatched |-> FALSE]
    /\ chk = ChkIdle
    /\ seq = [fn |-> "PDO", pc |-> "idle", calls |-> 0, kind |-> "none", arg |-> 0,
              sent |-> FALSE, ret |-> 0, isPDO |-> FALSE, CurProfile |-> 0,
              TxVelocity |-> 0, TxPosition |-> 0]

\* the calls: the five fixed frames, the seven profiles of Profile_t, and
\* positions and velocities over the int32_t range
NextPDO ==
    \/ \E kind \in {"startPDO", "stopPDO", "PDOShutDown", "PDOSwitchOn", "PDOEnableOp"} :
          PDOSend(kind, 0)
    \/ \E profile \in {\h01, \h03, \h07, \hFF, \hFE, \hFD, \h06} :
          PDOSend("PDOSwitchProfile", profile)
    \/ \E kind \in {"PDOSetPosition", "PDOSetVelocity"},
          v \in {0, 1, -1, 255, 256, -256, 500000, -200000, 2147483647, -2147483647 - 1} :
          PDOSend(kind, v)

SpecPDO == InitPDO /\ [][NextPDO]_vars

-----------------------------------------------------------------------------
(* Two devices opened on one CAN handle.                                   *)

\* openEPOS(dev, 1), then openEPOS(dev, 2) on the same handle: each call stores
\* the address of its own TxMessage in the handle's pTxMsg, so the handle points
\* to the frame of the device opened last
InitShared ==
    /\ \E g \in Garbage : epos = <<openEPOS(1, g), openEPOS(2, g)>>
    /\ hcan = [pTxMsg |-> 2]
    /\ CANMsgBuf = <<>> /\ pCANMsg = 0
    /\ SDOBusy = FALSE /\ CAN_TxReady = FALSE
    /\ pc = [c \in Callers |-> "idle"]
    /\ call = [c \in Callers |-> NoCall]
    /\ mailbox = <<>> /\ bus = <<>>
    /\ hist = [nrx |-> 0, lastRx |-> NoFrame, sdoDispatched |-> FALSE]
    /\ chk = ChkIdle
    /\ seq = SeqIdle

SpecShared == InitShared /\ [][Next]_vars

-----------------------------------------------------------------------------
(* An SDO response that nobody waits for.                                  *)

\* a frame with an SDO-response identifier of a device arrives while no call is
\* under way on it (a response to a request of another master, or a late one):
\* the callback dispatches it like any other frame.  It echoes object 0x6064.
RxStale ==
    /\ pc[1] = "idle"
    /\ hist.nrx < MaxRx
    /\ \E i \in 1..Len(epos) :
          HAL_CAN_RxCpltCallback(Frame(epos[i].Node_ID + \h580, 8,
                                       <<\h43, \h64, \h60, \h00, \h10, \h27, \h00, \h00>>))
    /\ UNCHANGED <<hcan, SDOBusy, CAN_TxReady, pc, call, mailbox, bus, chk, seq>>

NextStale == CallerStep(1) \/ HAL_CAN_TxCpltCallback \/ DeviceAnswer \/ RxStale

SpecStale == Init /\ [][NextStale]_vars

-----------------------------------------------------------------------------
(* processCANMsg step by step, over device arrays in which node ids may    *)
(* repeat: the callback stores the frame, each pass of the while loop      *)
(* dispatches the frame on top of the buffer, the PDO decode pass follows. *)

\* node ids of the devices in SpecScan
ScanNodeIds == {1, 2}

\* payload of the frames in SpecScan
ScanData == <<\h43, \h10, \h20, \hA1, \h07, \hFF, \h01, \h00>>

\* Seeded fault: the callback stores the frame and returns without draining the
\* buffer.
Rx_store_noDispatch ==
    /\ seq.fn = "processCANMsg" /\ seq.pc = "idle"
    /\ hist.nrx < MaxDispatch
    /\ \E id \in DispatchIds(epos) :
          /\ CANMsgBuf' = Append(CANMsgBuf, Frame(id, 8, ScanData))
          /\ hist' = [hist EXCEPT !.nrx = @ + 1, !.lastRx = Frame(id, 8, ScanData),
                                  !.sdoDispatched = @ \/ IsSDOFor(epos, Frame(id, 8, ScanData))]
    /\ pCANMsg' = pCANMsg + 1
    /\ UNCHANGED <<epos, hcan, SDOBusy, CAN_TxReady, pc, call, mailbox, bus, chk, seq>>

\* HAL_CAN_RxCpltCallback up to the call of processCANMsg
Rx_store ==
    /\ seq.fn = "processCANMsg" /\ seq.pc = "idle"
    /\ hist.nrx < MaxDispatch
    /\ \E id \in DispatchIds(epos) :
          /\ CANMsgBuf' = Append(CANMsgBuf, Frame(id, 8, ScanData))
          /\ hist' = [hist EXCEPT !.nrx = @ + 1, !.lastRx = Frame(id, 8, ScanData),
                                  !.sdoDispatched = @ \/ IsSDOFor(epos, Frame(id, 8, ScanData))]
    /\ pCANMsg' = pCANMsg + 1
    /\ seq' = [seq EXCEPT !.pc = "scan"]
    /\ UNCHANGED <<epos, hcan, SDOBusy, CAN_TxReady, pc, call, mailbox, bus, chk>>

\* one pass of while (pCANMsg > 0): the for loop over the devices, pCANMsg--
processCANMsg_scan ==
    /\ seq.fn = "processCANMsg" /\ seq.pc = "scan"
    /\ epos' = ScanDevices(epos, CANMsgBuf[Len(CANMsgBuf)], 1)
    /\ CANMsgBuf' = SubSeq(CANMsgBuf, 1, Len(CANMsgBuf) - 1)
    /\ pCANMsg' = pCANMsg - 1
    /\ seq' = [seq EXCEPT !.pc = IF pCANMsg - 1 > 0 THEN "scan" ELSE "decode"]
    /\ UNCHANGED <<hcan, SDOBusy, CAN_TxReady, pc, call, mailbox, bus, hist, chk>>

\* processPDOMessage(epos, num); return 1
processCANMsg_decode ==
    /\ seq.fn = "processCANMsg" /\ seq.pc = "decode"
    /\ epos' = processPDOMessage(epos)
    /\ seq' = [seq EXCEPT !.pc = "idle"]
    /\ UNCHANGED <<hcan, CANMsgBuf, pCANMsg, SDOBusy, CAN_TxReady, pc, call, mailbox,
                   bus, hist, chk>>

InitScan ==
    /\ \E a \in ScanNodeIds, b \in ScanNodeIds, c \in ScanNodeIds, g \in Garbage :
          epos = <<openEPOS(a, g), openEPOS(b, g), openEPOS(c, g)>>
    /\ hcan = [pTxMsg |-> 1]
    /\ CANMsgBuf = <<>> /\ pCANMsg = 0
    /\ SDOBusy = FALSE /\ CAN_TxReady = FALSE
    /\ pc = [c \in Callers |-> "idle"]
    /\ call = [c \in Callers |-> NoCall]
    /\ mailbox = <<>> /\ bus = <<>>
    /\ hist = [nrx |-> 0, lastRx |-> NoFrame, sdoDispatched |-> FALSE]
    /\ chk = ChkIdle
    /\ seq = [fn |-> "processCANMsg", pc |-> "idle"]

NextScan == Rx_store \/ processCANMsg_scan \/ processCANMsg_decode

SpecScan == InitScan /\ [][NextScan]_vars

-----------------------------------------------------------------------------
(* doHoming: moveAbsolute, waitForTarget, the arming writes,               *)
(* monitorHomingStatus and the final decision.  Each step is one SDO call  *)
(* together with the statements that follow it up to the next call.        *)

\* modes of operation (firmware spec 14.1.59)
E_HOMING == 6
E_PROFPOS == 1

\* the timeout doHoming passes to waitForTarget
HomingTimeout == 30

\* iterations of monitorHomingStatus's loop in one run
MaxMonitor == 3
\* the scripted device reports target-reached at poll N, N in 1..MaxN or N = the timeout
MaxN == 2
\* the scripted device reports homing-attained at poll M of the monitor phase, M in 1..MaxM
MaxM == 5

\* arguments of doHoming: homing methods (one negative) and start positions
HomingMethods == {7, -3}
HomingStarts == {-200000}

\* what an uninitialised WORD on the stack may hold
GarbageWords == {\h0000, \hFFFF}

\* status words that differ in target-reached (10), homing-attained (12) and
\* homing-error (13)
StatusWords ==
    { b10 * E_BIT10 + b12 * E_BIT12 + b13 * E_BIT13 : b10 \in {0, 1}, b12 \in {0, 1}, b13 \in {0, 1} }

\* (status & bit) == bit
Has(w, bit) == BitAnd(w, bit) = bit

\* (WORD) of an int: the value modulo 2^16
WORD(n) == n % 65536

\* the status word the scripted device reports at its next poll: target-reached from
\* poll N of the positioning on; after homing started, homing-attained (with
\* target-reached) from poll M on, before that target-reached only if keep10
ScriptStatus(plant) ==
    IF plant.phase = "pre" THEN (IF plant.polls + 1 >= plant.N THEN E_BIT10 ELSE 0)
    ELSE IF plant.phase = "homing"
         THEN (IF plant.polls + 1 >= plant.M THEN E_BIT12 + E_BIT10
               ELSE IF plant.keep10 THEN E_BIT10 ELSE 0)
         ELSE 0

\* a non-abort response to request r carrying the 16-bit value w
WordResponse(r, w) == Response(r, FALSE, <<w % 256, w \div 256, 0, 0>>)

\* what a read of the status word can meet
StatusOutcomes(plant, r) ==
    IF plant.mode = "script" THEN {WordResponse(r, ScriptStatus(plant))}
    ELSE {NoFrame, Response(r, TRUE, DWORD(E_PRAGNEX))}
         \cup { WordResponse(r, w) : w \in StatusWords }

\* what a read of the mode of operation can meet
OpModeOutcomes(plant, r) ==
    IF plant.mode = "script" THEN {WordResponse(r, E_PROFPOS), WordResponse(r, E_HOMING)}
    ELSE {NoFrame, WordResponse(r, E_PROFPOS), WordResponse(r, E_HOMING)}

\* what a read of position, velocity or current can meet
DataOutcomes(plant, r) ==
    IF plant.mode = "script" THEN {WordResponse(r, 0)} ELSE {NoFrame, WordResponse(r, 0)}

\* what a write can meet
HomingWriteOutcomes(plant, r) ==
    IF plant.mode = "script" THEN {Response(r, FALSE, DWORD(0))} ELSE WriteOutcomes(r)

\* the scripted device after it answered a status poll
Polled(plant, out) ==
    IF plant.mode = "script" /\ out # NoFrame /\ plant.polls < HomingTimeout + MaxM
    THEN [plant EXCEPT !.polls = @ + 1] ELSE plant

\* the scripted device after a write of value v to the control word: 0x003F starts
\* the positioning, 0x001F starts the homing
Commanded(plant, Index, v, out) ==
    IF plant.mode = "script" /\ out # NoFrame /\ Index = \h6040 /\ v = \h003F
    THEN [plant EXCEPT !.phase = "pre", !.polls = 0]
    ELSE IF plant.mode = "script" /\ out # NoFrame /\ Index = \h6040 /\ v = \h001F
         THEN [plant EXCEPT !.phase = "homing", !.polls = 0]
         ELSE plant

\* Seeded fault: a failed write is ignored and the sequence goes on.
AfterWrite_ignored(n, next) == next

\* if (n < 0) return (-1): where a function stands after a write returned n
AfterWrite(n, next) == IF n < 0 THEN "done" ELSE next

\* one write of doHoming, moveAbsolute or setOpMode at position here: WriteObject
\* with dw = <<v, 0x0000>> or the two words of a position, then the test of n.
\* tx logs the writes put on the bus with their results, failed the request of a
\* write that returned < 0.
HomingWrite(here, Index, dw, next) ==
    /\ seq.fn = "doHoming" /\ seq.pc = here
    /\ \E out \in HomingWriteOutcomes(seq.plant, WriteRequest(epos[1], Index, \h00, dw)) :
          LET r == WriteRequest(epos[1], Index, \h00, dw)
              w == WriteObject(epos[1], Index, \h00, dw, out)
          IN  /\ epos' = [epos EXCEPT ![1] = w.dev]
              /\ seq' = [seq EXCEPT
                           !.pc = AfterWrite(w.ret, next),
                           !.ret = IF w.ret < 0 THEN -1 ELSE @,
                           !.tx = IF out = NoFrame THEN @
                                  ELSE Append(@, [Index |-> Index, dw |-> dw, n |-> w.ret]),
                           !.wfail = @ \/ w.ret < 0,
                           !.failed = IF w.ret < 0 THEN r ELSE @,
                           !.plant = Commanded(@, Index, dw[1], out)]
    /\ UNCHANGED <<hcan, CANMsgBuf, pCANMsg, SDOBusy, CAN_TxReady, pc, call, mailbox,
                   bus, hist, chk>>

\* (int8_t)(answer & 0xFF)
Int8(b) == IF b >= 128 THEN b - 256 ELSE b

\* moveAbsolute: readOpMode (0 when ReadObject fails, else the low byte of the
\* answer as int8_t); setOpMode(E_PROFPOS) follows unless it is E_PROFPOS
moveAbsolute_readOpMode ==
    /\ seq.fn = "doHoming" /\ seq.pc = "moveAbsolute.readOpMode"
    /\ \E out \in OpModeOutcomes(seq.plant, ReadRequest(epos[1], \h6061, \h00)) :
          LET r == ReadObject(epos[1], \h6061, \h00, <<>>, out)
              mode == IF r.ret < 0 THEN 0 ELSE Int8(r.answer[1])
          IN  /\ epos' = [epos EXCEPT ![1] = r.dev]
              /\ seq' = [seq EXCEPT !.pc = IF mode # E_PROFPOS THEN "moveAbsolute.setOpMode"
                                           ELSE "moveAbsolute.target"]
    /\ UNCHANGED <<hcan, CANMsgBuf, pCANMsg, SDOBusy, CAN_TxReady, pc, call, mailbox,
                   bus, hist, chk>>

\* moveAbsolute: setOpMode(epos, E_PROFPOS)
moveAbsolute_setOpMode ==
    HomingWrite("moveAbsolute.setOpMode", \h6060, <<WORD(E_PROFPOS), \h0000>>,
                "moveAbsolute.target")

\* moveAbsolute: the target position, dw[0] = steps & 0xFFFF, dw[1] = steps >> 16
moveAbsolute_target ==
    HomingWrite("moveAbsolute.target", \h607A,
                <<LowWord(U32(seq.start)), HighWord(U32(seq.start))>>, "moveAbsolute.control")

\* moveAbsolute: control word 0x3f, absolute positioning
moveAbsolute_control ==
    HomingWrite("moveAbsolute.control", \h6040, <<\h003F, \h0000>>, "waitForTarget")

\* if (++i > t) return 1, with i the counter after the increment
TimedOut(i, t) == i > t

\* waitForTarget(epos, 30), one iteration: the counter is stepped and tested, then
\* the status word is read; bit 10 ends the loop.  doHoming does not use the value
\* returned (wt); the arming follows in either case.  mark is the number of writes
\* logged when the wait ended.
waitForTarget ==
    /\ seq.fn = "doHoming" /\ seq.pc = "waitForTarget"
    /\ IF TimedOut(seq.i + 1, HomingTimeout)
       THEN /\ seq' = [seq EXCEPT !.i = @ + 1, !.wt = 1, !.status = 0,
                                  !.mark = Len(seq.tx), !.pc = "setOpMode"]
            /\ UNCHANGED epos
       ELSE \E out \in StatusOutcomes(seq.plant, ReadRequest(epos[1], \h6041, \h00)) :
               LET r == ReadObject(epos[1], \h6041, \h00, <<>>, out)
                   s == readStatusword(r.ret, r.answer, seq.status)
               IN  /\ epos' = [epos EXCEPT ![1] = r.dev]
                   /\ seq' = IF Has(s.status, E_BIT10)
                             THEN [seq EXCEPT !.i = @ + 1, !.wt = 0, !.status = 0,
                                              !.mark = Len(seq.tx), !.pc = "setOpMode",
                                              !.plant = Polled(@, out)]
                             ELSE [seq EXCEPT !.i = @ + 1, !.status = s.status,
                                              !.plant = Polled(@, out)]
    /\ UNCHANGED <<hcan, CANMsgBuf, pCANMsg, SDOBusy, CAN_TxReady, pc, call, mailbox,
                   bus, hist, chk>>

\* Seeded fault: homing is started before the drive is switched on.
ArmingWrite_startFirst(k, method) ==
    CASE k = 1 -> [Index |-> \h6060, dw |-> <<WORD(E_HOMING), \h0000>>]
      [] k = 2 -> [Index |-> \h6098, dw |-> <<WORD(method), \h0000>>]
      [] k = 3 -> [Index |-> \h6040, dw |-> <<\h001F, \h0000>>]
      [] k = 4 -> [Index |-> \h6040, dw |-> <<\h000F, \h0000>>]

\* the k-th write of doHoming after the wait: setOpMode(E_HOMING), the homing
\* method (dw[0] = method), switch on (0x000f), start homing (0x001f)
ArmingWrite(k, method) ==
    CASE k = 1 -> [Index |-> \h6060, dw |-> <<WORD(E_HOMING), \h0000>>]
      [] k = 2 -> [Index |-> \h6098, dw |-> <<WORD(method), \h0000>>]
      [] k = 3 -> [Index |-> \h6040, dw |-> <<\h000F, \h0000>>]
      [] k = 4 -> [Index |-> \h6040, dw |-> <<\h001F, \h0000>>]

doHoming_setOpMode ==
    HomingWrite("setOpMode", ArmingWrite(1, seq.method).Index, ArmingWrite(1, seq.method).dw,
                "method")

doHoming_method ==
    HomingWrite("method", ArmingWrite(2, seq.method).Index, ArmingWrite(2, seq.method).dw,
                "switchOn")

doHoming_switchOn ==
    HomingWrite("switchOn", ArmingWrite(3, seq.method).Index, ArmingWrite(3, seq.method).dw,
                "start")

doHoming_start ==
    HomingWrite("start", ArmingWrite(4, seq.method).Index, ArmingWrite(4, seq.method).dw,
                "monitor.position")

\* readActualPosition, readActualVelocity (the answer is stored in the device
\* record) and readActualCurrent (the answer goes to the caller) inside
\* monitorHomingStatus: -1 when ReadObject fails, else 0
MonitorRead(here, Index, onFail, next) ==
    /\ seq.fn = "doHoming" /\ seq.pc = here
    /\ \E out \in DataOutcomes(seq.plant, ReadRequest(epos[1], Index, \h00)) :
          LET r == ReadObject(epos[1], Index, \h00, <<>>, out)
              v == LE32(r.answer[1], r.answer[2], r.answer[3], r.answer[4])
              d == IF r.ret < 0 THEN r.dev
                   ELSE IF Index = \h6064 THEN [r.dev EXCEPT !.RxPosition = v]
                   ELSE IF Index = \h606C THEN [r.dev EXCEPT !.RxVelocity = v]
                   ELSE r.dev
          IN  /\ epos' = [epos EXCEPT ![1] = d]
              /\ seq' = [seq EXCEPT !.pc = IF r.ret < 0 THEN onFail ELSE next,
                                    !.iter = IF here = "monitor.position" THEN @ + 1 ELSE @]
    /\ UNCHANGED <<hcan, CANMsgBuf, pCANMsg, SDOBusy, CAN_TxReady, pc, call, mailbox,
                   bus, hist, chk>>

\* monitorHomingStatus, the loop: a failed read breaks out of it
monitor_position ==
    /\ seq.iter < MaxMonitor
    /\ MonitorRead("monitor.position", \h6064, "end.position", "monitor.velocity")

monitor_velocity ==
    MonitorRead("monitor.velocity", \h606C, "end.position", "monitor.current")

monitor_current ==
    MonitorRead("monitor.current", \h6078, "end.position", "monitor.status1")

\* Seeded fault: the monitor gives up with result 1 when its second iteration ends
\* without target-reached or homing-attained.
AfterStatus_givesUp(here, q) ==
    IF here = "monitor.status1" THEN [q EXCEPT !.pc = "monitor.status2"]
    ELSE IF here = "monitor.status2"
         THEN IF Has(q.hstatus, E_BIT13)
              THEN [q EXCEPT !.mret = -2, !.hstatus = 0, !.pc = "reread"]
              ELSE IF ~ Has(q.hstatus, E_BIT10) /\ ~ Has(q.hstatus, E_BIT12)
                   THEN IF q.iter >= 2
                        THEN [q EXCEPT !.mret = 1, !.hstatus = 0, !.pc = "reread"]
                        ELSE [q EXCEPT !.pc = "monitor.position"]
                   ELSE [q EXCEPT !.pc = "end.position"]
         ELSE [q EXCEPT !.mret = 0, !.hstatus = 0, !.pc = "reread"]

\* monitorHomingStatus after a readStatusword at position here, q the state with
\* the word read: the first read of an iteration is only printed; the second is
\* tested, bit 13 returns -2 to doHoming, bit 10 or bit 12 ends the loop; the read
\* after the loop is followed by return 0
AfterStatus(here, q) ==
    IF here = "monitor.status1" THEN [q EXCEPT !.pc = "monitor.status2"]
    ELSE IF here = "monitor.status2"
         THEN IF Has(q.hstatus, E_BIT13)
              THEN [q EXCEPT !.mret = -2, !.hstatus = 0, !.pc = "reread"]
              ELSE IF ~ Has(q.hstatus, E_BIT10) /\ ~ Has(q.hstatus, E_BIT12)
                   THEN [q EXCEPT !.pc = "monitor.position"]
                   ELSE [q EXCEPT !.pc = "end.position"]
         ELSE [q EXCEPT !.mret = 0, !.hstatus = 0, !.pc = "reread"]

\* a readStatusword of monitorHomingStatus into its local status (0x0 at entry);
\* the value returned by readStatusword is not used
MonitorStatus(here) ==
    /\ seq.fn = "doHoming" /\ seq.pc = here
    /\ \E out \in StatusOutcomes(seq.plant, ReadRequest(epos[1], \h6041, \h00)) :
          LET r == ReadObject(epos[1], \h6041, \h00, <<>>, out)
              s == readStatusword(r.ret, r.answer, seq.hstatus)
          IN  /\ epos' = [epos EXCEPT ![1] = r.dev]
              /\ seq' = AfterStatus(here, [seq EXCEPT !.hstatus = s.status,
                                                      !.plant = Polled(@, out)])
    /\ UNCHANGED <<hcan, CANMsgBuf, pCANMsg, SDOBusy, CAN_TxReady, pc, call, mailbox,
                   bus, hist, chk>>

monitor_status1 == MonitorStatus("monitor.status1")

monitor_status2 == MonitorStatus("monitor.status2")

\* monitorHomingStatus after the loop: three reads whose failure is only printed,
\* one more status read, return 0
end_position ==
    MonitorRead("end.position", \h6064, "end.velocity", "end.velocity")

end_velocity ==
    MonitorRead("end.velocity", \h606C, "end.current", "end.current")

end_current ==
    MonitorRead("end.current", \h6078, "end.status", "end.status")

end_status == MonitorStatus("end.status")

\* Seeded fault: homing-attained is tested before homing-error.
HomingResult_attainedFirst(w) ==
    IF Has(w, E_BIT12) THEN 0 ELSE IF Has(w, E_BIT13) THEN -1 ELSE -5

\* doHoming's decision on the status word it read itself
HomingResult(w) ==
    IF Has(w, E_BIT13) THEN -1 ELSE IF Has(w, E_BIT12) THEN 0 ELSE -5

\* doHoming after monitorHomingStatus returned mret: 1 would return 2, any other
\* non-zero value is printed; then readStatusword(epos, &w) with w = 0x0000 before
\* and its result unused, and the decision on w
doHoming_reread ==
    /\ seq.fn = "doHoming" /\ seq.pc = "reread"
    /\ IF seq.mret = 1
       THEN /\ seq' = [seq EXCEPT !.ret = 2, !.pc = "done"]
            /\ UNCHANGED epos
       ELSE \E out \in StatusOutcomes(seq.plant, ReadRequest(epos[1], \h6041, \h00)) :
               LET r == ReadObject(epos[1], \h6041, \h00, <<>>, out)
                   s == readStatusword(r.ret, r.answer, seq.w)
               IN  /\ epos' = [epos EXCEPT ![1] = r.dev]
                   /\ seq' = [seq EXCEPT !.w = s.status, !.ret = HomingResult(s.status),
                                         !.final = TRUE, !.pc = "done",
                                         !.plant = Polled(@, out)]
    /\ UNCHANGED <<hcan, CANMsgBuf, pCANMsg, SDOBusy, CAN_TxReady, pc, call, mailbox,
                   bus, hist, chk>>

\* the state doHoming(epos, method, start) starts in, with device behaviour plant
HomingStart(plant) ==
    /\ \E g \in Garbage : epos = <<openEPOS(1, g)>>
    /\ hcan = [pTxMsg |-> 1]
    /\ CANMsgBuf = <<>> /\ pCANMsg = 0
    /\ SDOBusy = FALSE /\ CAN_TxReady = FALSE
    /\ pc = [c \in Callers |-> "idle"]
    /\ call = [c \in Callers |-> NoCall]
    /\ mailbox = <<>> /\ bus = <<>>
    /\ hist = [nrx |-> 0, lastRx |-> NoFrame, sdoDispatched |-> FALSE]
    /\ chk = ChkIdle
    /\ \E method \in HomingMethods, start \in HomingStarts, garbage \in GarbageWords :
          seq = [fn |-> "doHoming", pc |-> "moveAbsolute.readOpMode", method |-> method,
                 start |-> start, i |-> 0, status |-> garbage, hstatus |-> 0, iter |-> 0,
                 mret |-> 0, w |-> 0, ret |-> 0, tx |-> <<>>, mark |-> -1, wt |-> -1,
                 wfail |-> FALSE, failed |-> NoFrame, final |-> FALSE, plant |-> plant]

\* a device that may answer, abort or stay silent at every request
FreePlant ==
    [mode |-> "free", N |-> 0, M |-> 0, keep10 |-> FALSE, phase |-> "idle", polls |-> 0]

\* the polls at which the scripted device reports target-reached
ScriptN == (1 .. MaxN) \cup {HomingTimeout}

InitHoming == HomingStart(FreePlant)

\* a device that answers every request without abort and follows the script
InitHomingScript ==
    \E N \in ScriptN, M \in 1 .. MaxM, keep10 \in BOOLEAN :
        HomingStart([mode |-> "script", N |-> N, M |-> M, keep10 |-> keep10,
                     phase |-> "idle", polls |-> 0])

NextHoming ==
    \/ moveAbsolute_readOpMode
    \/ moveAbsolute_setOpMode
    \/ moveAbsolute_target
    \/ moveAbsolute_control
    \/ waitForTarget
    \/ doHoming_setOpMode
    \/ doHoming_method
    \/ doHoming_switchOn
    \/ doHoming_start
    \/ monitor_position
    \/ monitor_velocity
    \/ monitor_current
    \/ monitor_status1
    \/ monitor_status2
    \/ end_position
    \/ end_velocity
    \/ end_current
    \/ end_status
    \/ doHoming_reread

SpecHoming == InitHoming /\ [][NextHoming]_vars

SpecHomingScript == InitHomingScript /\ [][NextHoming]_vars

-----------------------------------------------------------------------------
(* The request frames, over a grid of indices, subindices and values.      *)

\* byte values at the corners of the byte range
FrameBytes == {\h00, \h7F, \h80, \hFF}

\* 16-bit values (indices, and the words of param[]) made of those bytes
FrameWords == { lo + 256 * hi : lo \in FrameBytes, hi \in FrameBytes }

\* subindices
FrameSubIndices == {\h00, \h01, \hFF}

NextFrame ==
    \/ /\ pc[1] = "idle"
       /\ \E Index \in FrameWords, SubIndex \in FrameSubIndices :
             ReadObject_build(1, 1, Index, SubIndex)
    \/ /\ pc[1] = "idle"
       /\ \E Index \in FrameWords, SubIndex \in FrameSubIndices,
             p0 \in FrameWords, p1 \in FrameWords :
                WriteObject_build(1, 1, Index, SubIndex, <<p0, p1>>)
    \/ sendCom_fail(1)

\* the foreground builds one request; the transport refuses it
SpecFrame == Init /\ [][NextFrame]_vars

-----------------------------------------------------------------------------
(* Write, then read back: setProfileVelocity and a read of 0x6081.         *)

\* bytes the written values are made of (500000 = 0x0007A120 among them)
RoundTripBytes == {\h00, \h07, \h20, \h80, \hA1, \hFF}

\* setProfileVelocity(epos, val) up to WriteObject's call of sendCom, val being the
\* value this run writes
setProfileVelocity ==
    /\ seq.fn = "setProfileVelocity" /\ seq.od = <<>>
    /\ pc[1] = "idle" /\ bus = <<>> /\ mailbox = <<>>
    /\ WriteObject_build(1, 1, \h6081, \h00, <<LowWord(seq.val), HighWord(seq.val)>>)

\* ReadObject(epos, 0x6081, 0x00, &answer) once the device holds a written value
ReadBack ==
    /\ seq.fn = "setProfileVelocity" /\ seq.od # <<>>
    /\ pc[1] = "idle"
    /\ ReadObject_build(1, 1, \h6081, \h00)

\* the device answers the oldest request on the bus: it stores the four bytes of a
\* write and acknowledges it; it answers a read with the four bytes it stores
DeviceEcho ==
    /\ bus # <<>>
    /\ hist.nrx < MaxRx
    /\ LET r == Head(bus)
       IN  IF B(r, 0) = \h22
           THEN /\ HAL_CAN_RxCpltCallback(Response(r, FALSE, <<0, 0, 0, 0>>))
                /\ seq' = [seq EXCEPT !.od = <<B(r, 4), B(r, 5), B(r, 6), B(r, 7)>>]
           ELSE /\ HAL_CAN_RxCpltCallback(Response(r, FALSE, seq.od))
                /\ UNCHANGED seq
    /\ bus' = Tail(bus)
    /\ UNCHANGED <<hcan, SDOBusy, CAN_TxReady, pc, call, mailbox, chk>>

\* a run writes one 32-bit value val; od is what the device stores for 0x6081
InitRoundTrip ==
    /\ \E g \in Garbage : epos = <<openEPOS(1, g)>>
    /\ hcan = [pTxMsg |-> 1]
    /\ CANMsgBuf = <<>> /\ pCANMsg = 0
    /\ SDOBusy = FALSE /\ CAN_TxReady = FALSE
    /\ pc = [c \in Callers |-> "idle"]
    /\ call = [c \in Callers |-> NoCall]
    /\ mailbox = <<>> /\ bus = <<>>
    /\ hist = [nrx |-> 0, lastRx |-> NoFrame, sdoDispatched |-> FALSE]
    /\ chk = ChkIdle
    /\ \E b0 \in RoundTripBytes, b1 \in RoundTripBytes, b2 \in RoundTripBytes,
          b3 \in RoundTripBytes :
             seq = [fn |-> "setProfileVelocity", pc |-> "idle",
                    val |-> <<b0, b1, b2, b3>>, od |-> <<>>]

NextRoundTrip ==
    \/ setProfileVelocity
    \/ ReadBack
    \/ sendCom_transmit(1)
    \/ sendCom_ready(1)
    \/ readAnswer_clear(1)
    \/ readAnswer_poll(1)
    \/ readAnswer_check(1)
    \/ ReadObject_result(1)
    \/ WriteObject_result(1)
    \/ Return(1)
    \/ HAL_CAN_TxCpltCallback
    \/ DeviceEcho

SpecRoundTrip == InitRoundTrip /\ [][NextRoundTrip]_vars

-----------------------------------------------------------------------------
(* Vocabulary of the properties.                                           *)

\* the value of four little-endian bytes read as a two's-complement 32-bit integer
SignedLE32(b0, b1, b2, b3) ==
    (b0 + 256 * b1 + 65536 * b2 + 16777216 * (b3 % 128)) - (b3 \div 128) * 2147483647
        - (b3 \div 128)

\* the value of a uint32_t below 2^31
DWordValue(d) == d[1] + 256 * d[2] + 65536 * d[3] + 16777216 * d[4]

\* bytes 4..7 of a frame
Payload(f) == <<B(f, 4), B(f, 5), B(f, 6), B(f, 7)>>

\* context c's call has returned / has returned after its request was sent
Done(c) == pc[c] = "done"
Sent(c) == call[c].n = 1

\* the device context c's call addresses
Dev(c) == epos[call[c].dev]

\* the PDO side of a device: slots, flags and cached telemetry
PDOPart(dev) ==
    <<dev.PDO1Msg, dev.PDO1RcvFlag, dev.PDO2Msg, dev.PDO2RcvFlag, dev.PDO3Msg,
      dev.PDO3RcvFlag, dev.PDO4Msg, dev.PDO4RcvFlag, dev.RxPosition, dev.RxVelocity>>

\* this step is a receive-complete interrupt
RxStep == hist'.nrx = hist.nrx + 1

-----------------------------------------------------------------------------
(* C1 *)

\* C1: for every 16-bit status word w that a successful status read delivers,
\* checkEPOSstate returns k in 0..11 exactly when the bits 0-6, 8 and 14 of w equal
\* state k's documented pattern, whatever bits 7, 9-13 and 15 are; at most one of
\* the twelve tests holds for w, so the order of the tests does not matter; it
\* returns -2 for every other w; a failed read gives -1.
C1_DecodeExact ==
    chk.pc = "done" =>
       IF chk.n < 0 THEN chk.ret = -1
       ELSE /\ chk.w = chk.answer[1] + 256 * chk.answer[2]
            /\ \A k \in 0..11 :
                  (chk.ret = k) <=> (BitAnd(chk.w, StateMask) = StatePattern(k))
            /\ (chk.ret = -2) <=>
                  (\A k \in 0..11 : BitAnd(chk.w, StateMask) # StatePattern(k))
            /\ chk.ret \in (0..11) \cup {-2}
            /\ Cardinality({k \in 0..11 : StateTest(k, chk.w)}) <= 1

\* 'operation enable' is decoded from a word whose bits 7, 10 and 15 are set too
C1_Witness == chk.pc = "done" /\ chk.ret = 7 /\ chk.w = \h85B7

-----------------------------------------------------------------------------
(* C2 *)

\* C2: an SDO read whose response starts with the abort marker 0x80 fails: ReadObject
\* returns a failure result (< 0), and E_error holds the little-endian 32-bit code of
\* response bytes 4..7.
C2_ReadAbortFails ==
    \A c \in Callers :
       (Done(c) /\ Sent(c) /\ call[c].op = "read" /\ B(call[c].seen, 0) = \h80)
          => (call[c].ret < 0 /\ Dev(c).E_error = Payload(call[c].seen))

-----------------------------------------------------------------------------
(* C3 *)

\* C3: for every abort code c of the catalogue, a WriteObject whose response has
\* opcode 0x80 and error payload c returns failure and leaves E_error equal to c.
C3_WriteAbortCode ==
    \A c \in Catalogue :
       ( /\ Done(1) /\ call[1].op = "write"
         /\ B(call[1].seen, 0) = \h80
         /\ Payload(call[1].seen) = <<c % 256, (c \div 256) % 256, (c \div 65536) % 256,
                                      c \div 16777216>> )
          => (call[1].ret = -1 /\ DWordValue(Dev(1).E_error) = c)

\* a write was aborted with 'error in Node-ID' (0x0F00FFB9)
C3_Witness ==
    /\ Done(1) /\ call[1].op = "write" /\ call[1].ret = -1
    /\ B(call[1].seen, 0) = \h80
    /\ Payload(call[1].seen) = <<\hB9, \hFF, \h00, \h0F>>
    /\ DWordValue(Dev(1).E_error) = E_NODEID

-----------------------------------------------------------------------------
(* C4 *)

\* C4: WriteObject fails if and only if byte 0 of the response is the abort marker
\* 0x80, whatever bytes 4..7 are (also for an abort with payload 0x00000000), and
\* succeeds for every response without the marker.
C4_WriteFailsIffMarker ==
    \A c \in Callers :
       (Done(c) /\ Sent(c) /\ call[c].op = "write")
          => ((call[c].ret = -1) <=> (B(call[c].seen, 0) = \h80))
             /\ ((call[c].ret = 0) <=> (B(call[c].seen, 0) # \h80))

-----------------------------------------------------------------------------
(* C5 *)

\* the index and subindex a response echoes are those of context c's request
EchoMatches(c) ==
    /\ B(call[c].seen, 1) = call[c].Index % 256
    /\ B(call[c].seen, 2) = call[c].Index \div 256
    /\ B(call[c].seen, 3) = call[c].SubIndex

\* C5: at most one SDO transaction is outstanding per device; a second call issued
\* from another context while the first waits is rejected or deferred, and a response
\* that belongs to one call is never consumed by the other call's waiter.  Stated
\* here is the last clause: the response a call consumes answers its own request.
C5_NoCrossConsumption ==
    \A c \in Callers : (pc[c] \in {"result", "done"} /\ Sent(c)) => EchoMatches(c)

-----------------------------------------------------------------------------
(* C6 *)

\* C6: for every node id in 1..127, processCANMsg delivers a buffered frame with
\* identifier node+0x580 to that device's SDO slot (the frame is copied to SDOMsg and
\* SDORcvFlag is set) and writes no PDO slot, PDO flag or cached position / velocity
\* of any device.  (The device array holds opened devices with distinct node ids.)
C6_SDORouting ==
    [][ RxStep =>
          \A i \in 1..Len(epos) :
             hist'.lastRx.StdId = epos[i].Node_ID + \h580 =>
                /\ epos'[i].SDOMsg = hist'.lastRx
                /\ epos'[i].SDORcvFlag = TRUE
                /\ \A j \in 1..Len(epos) : PDOPart(epos'[j]) = PDOPart(epos[j]) ]_vars

\* the second device, with node id 127, holds the SDO response just dispatched
C6_Witness ==
    /\ Len(epos) = 2 /\ epos[2].Node_ID = 127
    /\ hist.lastRx.StdId = 127 + \h580
    /\ epos[2].SDOMsg = hist.lastRx /\ epos[2].SDORcvFlag
    /\ ~epos[1].SDORcvFlag

-----------------------------------------------------------------------------
(* C7 *)

\* C7: after processCANMsg dispatched a frame with identifier node+0x380, that
\* device's cached position is the little-endian signed 32-bit value of payload
\* bytes 2..5 and its cached velocity is unchanged; a frame node+0x480 updates only
\* the cached velocity; frames node+0x180 and node+0x280 change neither cache.
C7_PDODecode ==
    [][ RxStep =>
          \A i \in 1..Len(epos) :
             LET f == hist'.lastRx
                 v == SignedLE32(B(f, 2), B(f, 3), B(f, 4), B(f, 5))
             IN  /\ f.StdId = epos[i].Node_ID + \h380 =>
                       (epos'[i].RxPosition = v /\ epos'[i].RxVelocity = epos[i].RxVelocity)
                 /\ f.StdId = epos[i].Node_ID + \h480 =>
                       (epos'[i].RxVelocity = v /\ epos'[i].RxPosition = epos[i].RxPosition)
                 /\ f.StdId \in {epos[i].Node_ID + \h180, epos[i].Node_ID + \h280} =>
                       /\ epos'[i].RxPosition = epos[i].RxPosition
                       /\ epos'[i].RxVelocity = epos[i].RxVelocity ]_vars

\* a channel-3 frame with a negative position was decoded after a channel-4 frame
C7_Witness ==
    /\ hist.lastRx.StdId = epos[1].Node_ID + \h380
    /\ epos[1].RxPosition = -16277216
    /\ epos[1].RxVelocity = 3145824

-----------------------------------------------------------------------------
(* C8 *)

\* what a call that consumed response f leaves in E_error
ErrorAfter(f) == IF B(f, 0) = \h80 THEN Payload(f) ELSE <<0, 0, 0, 0>>

\* C8: after every ReadObject or WriteObject call returns - succeeded, aborted by
\* the device, or failed at transport send - E_error has been updated by that call
\* (0 for a non-abort response, the abort code for an abort) and does not still hold
\* an earlier value.
C8_AlwaysUpdated ==
    \A c \in Callers :
       Done(c) => Dev(c).E_error = (IF Sent(c) THEN ErrorAfter(call[c].seen)
                                    ELSE <<0, 0, 0, 0>>)

-----------------------------------------------------------------------------
(* C9 *)

\* C9: if the transport refuses the send, ReadObject and WriteObject return failure
\* at once: the step from sendCom leads straight to the return of -1, without a poll
\* or a clear of the SDO-response flag, leaves the device record as it is, and a
\* read leaves its output value unwritten.
C9_SendFailureImmediate ==
    [][ \A c \in Callers :
          (pc[c] = "sendCom" /\ pc'[c] # "sendCom" /\ call'[c].n # 0 /\ call'[c].n # 1) =>
              /\ pc'[c] = "done"
              /\ call'[c].ret = -1
              /\ call'[c].answer = <<>> /\ call'[c].seen = NoFrame
              /\ epos' = epos ]_vars

\* a read has failed at transport send after an earlier transaction completed
C9_Witness ==
    /\ Done(1) /\ ~Sent(1) /\ call[1].op = "read" /\ call[1].ret = -1
    /\ hist.nrx > 0

-----------------------------------------------------------------------------
(* C10 *)

\* C10: a call whose send succeeded returns only after it observed the device's
\* SDO-response flag set and cleared it; there is no timeout: as long as no frame
\* with identifier node+0x580 has been dispatched, no such call is past its wait.
C10_ReturnsOnlyAfterFlag ==
    /\ [](\A c \in Callers :
             (pc[c] \in {"check", "result"} \/ (Done(c) /\ Sent(c))) => hist.sdoDispatched)
    /\ [][ \A c \in Callers :
             /\ (pc[c] # "check" /\ pc'[c] = "check") =>
                   (pc[c] = "poll" /\ epos[call[c].dev].SDORcvFlag
                                   /\ ~epos'[call[c].dev].SDORcvFlag)
             /\ (pc[c] # "result" /\ pc'[c] = "result") => pc[c] = "check"
             /\ (pc[c] # "done" /\ pc'[c] = "done" /\ call'[c].n = 1) =>
                   pc[c] = "result" ]_vars

\* a call has returned after its response was dispatched, and the flag is clear again
C10_Witness ==
    /\ Done(1) /\ Sent(1) /\ call[1].ret = 1
    /\ hist.sdoDispatched /\ ~Dev(1).SDORcvFlag

-----------------------------------------------------------------------------
(* C11 *)

\* C11: the request ReadObject(index, subindex) hands to sendCom is an 8-byte
\* standard data frame with identifier 0x600 + node id and payload [0x40, index low
\* byte, index high byte, subindex, 0, 0, 0, 0]; WriteObject's is the same with
\* opcode 0x22 and bytes 4..7 = low byte and high byte of param[0], then low byte and
\* high byte of param[1] (the 32-bit value, little-endian).
C11_RequestFrame ==
    pc[1] = "sendCom" =>
       LET t == Dev(1).TxMessage
           c == call[1]
       IN  /\ t.StdId = \h600 + Dev(1).Node_ID
           /\ t.DLC = 8 /\ t.IDE = "CAN_ID_STD" /\ t.RTR = "CAN_RTR_DATA"
           /\ t.Data = IF c.op = "read"
                       THEN <<\h40, c.Index % 256, c.Index \div 256, c.SubIndex, 0, 0, 0, 0>>
                       ELSE <<\h22, c.Index % 256, c.Index \div 256, c.SubIndex,
                              c.param[1] % 256, c.param[1] \div 256,
                              c.param[2] % 256, c.param[2] \div 256>>

\* a write of 0x7FFFFF80 to 0x807F/0xFF stands in TxMessage
C11_Witness ==
    /\ pc[1] = "sendCom" /\ call[1].op = "write"
    /\ call[1].Index = \h807F /\ call[1].SubIndex = \hFF
    /\ call[1].param = <<\hFF80, \h7FFF>>
    /\ Dev(1).TxMessage.Data = <<\h22, \h7F, \h80, \hFF, \h80, \hFF, \hFF, \h7F>>

-----------------------------------------------------------------------------
(* C12 *)

\* C12: round trip: for every 32-bit value v, the bytes 4..7 that setProfileVelocity
\* and WriteObject encode for v, echoed in a non-abort response with the same index
\* and subindex, are decoded by ReadObject to exactly v.
C12_RoundTrip ==
    (Done(1) /\ Sent(1) /\ call[1].op = "read") =>
        /\ B(call[1].seen, 0) # \h80
        /\ EchoMatches(1)
        /\ Payload(call[1].seen) = seq.od
        /\ call[1].answer = seq.val

\* 500000 was written and read back
C12_Witness ==
    /\ Done(1) /\ Sent(1) /\ call[1].op = "read"
    /\ seq.val = <<\h20, \hA1, \h07, \h00>>
    /\ DWordValue(call[1].answer) = 500000

-----------------------------------------------------------------------------
(* C13 *)

\* the control word the claim gives for a target (-1: the claim names none)
ClaimedControlWord(state) ==
    CASE state = 0 -> \h0006
      [] state = 1 -> \h0007
      [] state = 2 -> \h0000
      [] state = 4 -> \h0007
      [] state = 5 -> \h000F
      [] state = 6 -> \h0080
      [] OTHER -> -1

\* C13: changeEPOSstate(target) writes object 0x6040/0 with a control word that
\* depends only on the target (shutdown 0x0006, switch-on 0x0007, disable-voltage
\* 0x0000, disable-operation 0x0007, enable-operation 0x000F, fault-reset 0x0080),
\* whatever happened before and whatever control word the device holds; the only
\* request a call puts on the bus is that write: object 0x6040 is never read.
C13_ControlWordByTarget ==
    (seq.fn = "changeEPOSstate" /\ seq.calls > 0 /\ ClaimedControlWord(seq.state) # -1) =>
        LET cw == ClaimedControlWord(seq.state)
            want == <<\h22, \h40, \h60, \h00, cw % 256, cw \div 256, 0, 0>>
        IN  /\ epos[1].TxMessage.Data = want
            /\ Len(seq.tx) <= 1
            /\ \A k \in 1..Len(seq.tx) : seq.tx[k].Data = want

\* fault reset was written as 0x0080 in a second call, and acknowledged
C13_Witness ==
    /\ seq.fn = "changeEPOSstate" /\ seq.calls = 2 /\ seq.state = 6 /\ seq.ret = 0
    /\ Len(seq.tx) = 1 /\ B(seq.tx[1], 4) = \h80
    /\ B(epos[1].SDOMsg, 0) = \h60 /\ seq.cw = \h0080

-----------------------------------------------------------------------------
(* C14 *)

\* C14: when the wait for target-reached (bit 10) after the pre-positioning ran
\* into its timeout, doHoming arms no homing: no write of 0x6060, 0x6098 or 0x6040
\* follows the wait, and doHoming does not go on to a result other than failure.
C14_TimeoutStopsHoming ==
    (seq.fn = "doHoming" /\ seq.wt = 1) =>
        /\ Len(seq.tx) = seq.mark
        /\ seq.pc \in {"setOpMode", "done"}
        /\ seq.pc = "done" => seq.ret # 0

-----------------------------------------------------------------------------
(* C15 *)

\* C15: once a status word polled and tested in the monitor phase had the
\* homing-error bit (13) set (monitorHomingStatus returned -2), doHoming does not
\* return success (0), whatever the status word reads afterwards.
C15_ErrorNeverSuccess ==
    (seq.fn = "doHoming" /\ seq.mret = -2 /\ seq.pc = "done") => seq.ret # 0

-----------------------------------------------------------------------------
(* C16 *)

\* doHoming returned 0 and the status word it read last has bit 12 set, bit 13 clear
HomedOK == seq.ret = 0 /\ Has(seq.w, E_BIT12) /\ ~ Has(seq.w, E_BIT13)

\* C16: with a device that answers every request without abort, reports
\* target-reached at poll N of the wait and homing-attained without homing-error
\* at poll M of the monitor phase, doHoming returns 0 and the last status word it
\* read has bit 12 set and bit 13 clear, for every N and M.
C16_ScriptedSuccess ==
    (seq.fn = "doHoming" /\ seq.plant.mode = "script" /\ seq.pc = "done") => HomedOK

\* What does hold: a device that does not report target-reached (bit 10) in the
\* monitor phase before it reports homing-attained.  The wait then ends at poll N
\* without timeout, no write fails, the monitor loop runs until the iteration that
\* holds poll M and no further, and doHoming returns 0 with bit 12 set and bit 13
\* clear in the last status word.
SuccessWithoutEarlyTarget ==
    (seq.fn = "doHoming" /\ seq.plant.mode = "script" /\ ~ seq.plant.keep10) =>
        /\ ~ seq.wfail /\ seq.wt # 1
        /\ seq.iter <= (seq.plant.M + 1) \div 2
        /\ seq.pc = "done" =>
              /\ HomedOK
              /\ seq.wt = 0 /\ seq.i = seq.plant.N
              /\ seq.iter = (seq.plant.M + 1) \div 2

\* target-reached came at the last poll the timeout allows, homing-attained at
\* the fifth poll of the monitor phase, and doHoming returned 0
SuccessWithoutEarlyTarget_Witness ==
    /\ seq.fn = "doHoming" /\ seq.plant.mode = "script" /\ ~ seq.plant.keep10
    /\ seq.plant.N = HomingTimeout /\ seq.plant.M = 5
    /\ seq.pc = "done" /\ HomedOK /\ seq.iter = 3 /\ seq.i = HomingTimeout

-----------------------------------------------------------------------------
(* C17 *)

\* the writes put on the bus since the wait for the pre-positioning ended
ArmLog == SubSeq(seq.tx, seq.mark + 1, Len(seq.tx))

\* the order the claim gives: object and 16-bit value of the k-th write
ClaimedArming(k, method) ==
    CASE k = 1 -> <<\h6060, 6>>
      [] k = 2 -> <<\h6098, method % 65536>>
      [] k = 3 -> <<\h6040, \h000F>>
      [] k = 4 -> <<\h6040, \h001F>>

\* positions of doHoming from the call of monitorHomingStatus on
Monitoring ==
    seq.pc \in {"monitor.position", "monitor.velocity", "monitor.current", "monitor.status1",
                "monitor.status2", "end.position", "end.velocity", "end.current",
                "end.status", "reread"}
    \/ (seq.pc = "done" /\ (seq.final \/ seq.mret # 0))

\* C17: after the pre-positioning the writes go out in exactly the order
\* 0x6060 = 6, 0x6098 = method, 0x6040 = 0x000F, 0x6040 = 0x001F (upper word
\* 0x0000 each); each is a transaction of its own that returned without failure
\* before the next was sent, and monitoring begins only after all four were sent
\* and the write of 0x001F succeeded.
C17_ArmingOrder ==
    (seq.fn = "doHoming" /\ seq.mark >= 0) =>
        /\ Len(ArmLog) <= 4
        /\ \A k \in 1 .. Len(ArmLog) :
              /\ <<ArmLog[k].Index, ArmLog[k].dw[1]>> = ClaimedArming(k, seq.method)
              /\ ArmLog[k].dw[2] = \h0000
              /\ k < Len(ArmLog) => ArmLog[k].n >= 0
        /\ Monitoring => (Len(ArmLog) = 4 /\ ArmLog[4].n >= 0)

\* the four writes for method -3 are out and acknowledged, monitoring is about to
\* begin
C17_Witness ==
    /\ seq.fn = "doHoming" /\ seq.pc = "monitor.position" /\ seq.iter = 0
    /\ seq.method = -3 /\ seq.wt = 0 /\ Len(ArmLog) = 4
    /\ ArmLog[2].dw = <<\hFFFD, \h0000>> /\ ArmLog[4].dw = <<\h001F, \h0000>>
    /\ B(epos[1].SDOMsg, 0) = \h60

-----------------------------------------------------------------------------
(* C18 *)

\* bit k of a 16-bit word
Bit(w, k) == (w \div (2 ^ k)) % 2

\* C18: when doHoming came to its own read of the status word after the monitor
\* phase, its result is decided by that word alone: bit 13 set gives -1 and has
\* priority, otherwise bit 12 set gives 0, otherwise -5; what monitorHomingStatus
\* returned does not enter.  The word is the one of the response to that read, or
\* 0x0000 when the read could not be sent.
C18_ResultFromReread ==
    (seq.fn = "doHoming" /\ seq.final) =>
        /\ seq.pc = "done"
        /\ seq.ret = (IF Bit(seq.w, 13) = 1 THEN -1 ELSE IF Bit(seq.w, 12) = 1 THEN 0 ELSE -5)
        /\ \/ seq.w = B(epos[1].SDOMsg, 4) + 256 * B(epos[1].SDOMsg, 5)
           \/ seq.w = 0

\* the word read had bit 13 and bit 12 set after a monitor phase that ended
\* without error: the result is -1
C18_Witness ==
    /\ seq.fn = "doHoming" /\ seq.final /\ seq.mret = 0
    /\ seq.w = E_BIT13 + E_BIT12 /\ seq.ret = -1

-----------------------------------------------------------------------------
(* C19 *)

\* C19: when a write issued by doHoming, by setOpMode or by moveAbsolute returned
\* a failure, doHoming has returned -1 at once: the failed write is the last
\* request built, nothing was put on the bus after it, it was not repeated, and
\* doHoming did not go on to its final status read.
C19_WriteFailureStops ==
    (seq.fn = "doHoming" /\ seq.wfail) =>
        /\ seq.pc = "done" /\ seq.ret = -1 /\ ~ seq.final
        /\ epos[1].TxMessage = seq.failed
        /\ B(seq.failed, 0) = \h22
        /\ \A k \in 1 .. Len(seq.tx) : seq.tx[k].n < 0 => k = Len(seq.tx)

\* moveAbsolute's write of the target position was aborted by the device
C19_Witness ==
    /\ seq.fn = "doHoming" /\ seq.wfail /\ seq.pc = "done" /\ seq.ret = -1
    /\ B(seq.failed, 1) = \h7A /\ B(seq.failed, 2) = \h60
    /\ B(epos[1].SDOMsg, 0) = \h80 /\ epos[1].E_error = DWORD(E_PRAGNEX)
    /\ Len(seq.tx) > 0 /\ seq.tx[Len(seq.tx)].Index = \h607A

-----------------------------------------------------------------------------
(* C20 *)

\* the six identifier offsets and the channel each stands for
ChannelOffsets == {\h180, \h280, \h380, \h480, \h580, \h80}

\* device dev after frame f was received on the channel with offset off, and
\* nothing else happened to it
Received(dev, off, f) ==
    CASE off = \h180 -> [dev EXCEPT !.PDO1Msg = f, !.PDO1RcvFlag = TRUE]
      [] off = \h280 -> [dev EXCEPT !.PDO2Msg = f, !.PDO2RcvFlag = TRUE]
      [] off = \h380 -> [dev EXCEPT !.PDO3Msg = f, !.PDO3RcvFlag = TRUE]
      [] off = \h480 -> [dev EXCEPT !.PDO4Msg = f, !.PDO4RcvFlag = TRUE]
      [] off = \h580 -> [dev EXCEPT !.SDOMsg = f, !.SDORcvFlag = TRUE]
      [] off = \h80 -> [dev EXCEPT !.Dev_Err = f.Data[1] + 256 * f.Data[2], !.ErrFlag = TRUE]

\* the devices whose node id plus one of the six offsets is the identifier of f
Claimants(f) ==
    { i \in 1 .. Len(epos) : \E off \in ChannelOffsets : f.StdId = epos[i].Node_ID + off }

\* C20: dispatching one buffered frame changes at most one device: the first
\* device in array order whose node id plus one of the six offsets equals the
\* identifier receives the frame on the channel of that offset, which is the only
\* offset that fits; no other field of it and no field of any other device changes (also when a later device
\* has the same node id); a frame no device claims changes no device.
C20_OneDevicePerFrame ==
    [][ (seq.fn = "processCANMsg" /\ seq.pc = "scan") =>
          LET f == CANMsgBuf[Len(CANMsgBuf)]
          IN  IF Claimants(f) = {} THEN epos' = epos
              ELSE LET i == CHOOSE m \in Claimants(f) : \A n \in Claimants(f) : m <= n
                   IN  /\ \A j \in 1 .. Len(epos) : j # i => epos'[j] = epos[j]
                       /\ epos'[i] = Received(epos[i], f.StdId - epos[i].Node_ID, f)
                       /\ Cardinality({ off \in ChannelOffsets :
                                          f.StdId = epos[i].Node_ID + off }) = 1 ]_vars

\* devices 2 and 3 share node id 2: the SDO response 0x582 went to device 2 only
C20_Witness ==
    /\ seq.fn = "processCANMsg" /\ seq.pc = "decode"
    /\ epos[1].Node_ID = 1 /\ epos[2].Node_ID = 2 /\ epos[3].Node_ID = 2
    /\ hist.lastRx.StdId = \h582
    /\ epos[2].SDOMsg = hist.lastRx /\ epos[2].SDORcvFlag
    /\ epos[3].SDOMsg # hist.lastRx /\ ~ epos[3].SDORcvFlag

-----------------------------------------------------------------------------
(* C22 *)

\* C22: when processCANMsg returns, the PDO-3 and PDO-4 flags of every device are
\* false and a PDO-3 / PDO-4 frame of the pass has been decoded into the cached
\* position / velocity; an SDO flag that was set before the pass or is set in it
\* is still set afterwards.  The SDO flag falls only in readAnswer, when the
\* waiting SDO call consumes the response.
C22_FlagsAfterPass ==
    [][ /\ RxStep =>
             \A i \in 1..Len(epos) :
                /\ ~ epos'[i].PDO3RcvFlag /\ ~ epos'[i].PDO4RcvFlag
                /\ hist'.lastRx.StdId = epos[i].Node_ID + \h380 =>
                      epos'[i].RxPosition = SignedLE32(B(hist'.lastRx, 2), B(hist'.lastRx, 3),
                                                        B(hist'.lastRx, 4), B(hist'.lastRx, 5))
                /\ hist'.lastRx.StdId = epos[i].Node_ID + \h480 =>
                      epos'[i].RxVelocity = SignedLE32(B(hist'.lastRx, 2), B(hist'.lastRx, 3),
                                                        B(hist'.lastRx, 4), B(hist'.lastRx, 5))
                /\ (epos[i].SDORcvFlag \/ hist'.lastRx.StdId = epos[i].Node_ID + \h580)
                      => epos'[i].SDORcvFlag
        /\ \A i \in 1..Len(epos) :
              (epos[i].SDORcvFlag /\ ~ epos'[i].SDORcvFlag) =>
                 (pc[1] = "poll" /\ pc'[1] = "check" /\ call[1].dev = i) ]_vars

\* the response of the pending call was dispatched, then a PDO-3 frame: the
\* position is decoded, the PDO flags are down and the SDO flag is still up
C22_Witness ==
    /\ pc[1] = "poll" /\ epos[1].SDORcvFlag
    /\ hist.nrx = 2 /\ hist.lastRx.StdId = epos[1].Node_ID + \h380
    /\ epos[1].PDO3Msg = hist.lastRx /\ ~ epos[1].PDO3RcvFlag /\ ~ epos[1].PDO4RcvFlag
    /\ epos[1].RxPosition = -16277216

-----------------------------------------------------------------------------
(* C24 *)

\* C24: the per-channel slots, their flags and the cached position and velocity
\* of a device are written only in the receive-callback context: a step of the
\* foreground (a step that is no receive callback) leaves them as they are.
C24_SingleWriter ==
    [][ (\E i \in 1..Len(epos) : PDOPart(epos'[i]) # PDOPart(epos[i])) => RxStep ]_vars

-----------------------------------------------------------------------------
(* C25 *)

\* C25: a frame with identifier node+0x80 sets the device's Dev_Err to the
\* little-endian 16-bit value of payload bytes 0..1 and raises ErrFlag; every other
\* field of the device (SDO slot and flag, E_error, PDO slots, flags and caches)
\* stays as it is, and so does the SDO call in flight: its position, its request
\* and what it has seen so far.
C25_EmergencyOnly ==
    [][ RxStep =>
          \A i \in 1..Len(epos) :
             hist'.lastRx.StdId = epos[i].Node_ID + \h80 =>
                /\ epos'[i].Dev_Err = hist'.lastRx.Data[1] + 256 * hist'.lastRx.Data[2]
                /\ epos'[i].ErrFlag
                /\ [epos'[i] EXCEPT !.Dev_Err = 0, !.ErrFlag = FALSE]
                      = [epos[i] EXCEPT !.Dev_Err = 0, !.ErrFlag = FALSE]
                /\ pc' = pc /\ call' = call ]_vars

\* an emergency frame with code 0x1080 arrived while the SDO call was waiting for
\* its response: the call still waits, E_error is still 0
C25_Witness ==
    /\ pc[1] = "poll" /\ ~ epos[1].SDORcvFlag
    /\ hist.lastRx.StdId = epos[1].Node_ID + \h80
    /\ epos[1].Dev_Err = \h1080 /\ epos[1].ErrFlag
    /\ epos[1].E_error = DWORD(0)

-----------------------------------------------------------------------------
(* C30 *)

\* C30: a call returns data only from a response dispatched after its own request
\* was handed to the transport; with a device that echoes correctly, the index and
\* subindex in the response a call consumed are those of the request it built,
\* also when an SDO-response frame was dispatched before the call began.
C30_NoStaleResponse ==
    (pc[1] = "done" /\ call[1].n = 1) =>
        \A k \in 1..3 : B(call[1].seen, k) = B(epos[call[1].dev].TxMessage, k)

-----------------------------------------------------------------------------
(* C29 *)

\* C29: with several devices opened on one CAN handle, the frame a request hands
\* to the transport is the one just built for the device the call addresses: its
\* identifier is 0x600 + that device's node id and its payload is the request's,
\* whichever device was opened last.
C29_OwnFrameTransmitted ==
    (pc[1] = "txwait" /\ mailbox # <<>>) =>
        /\ mailbox[Len(mailbox)] = epos[call[1].dev].TxMessage
        /\ mailbox[Len(mailbox)].StdId = \h600 + epos[call[1].dev].Node_ID

-----------------------------------------------------------------------------
(* C27 *)

\* the payload of a frame on the wire: its first DLC data bytes
Wire(f) == SubSeq(f.Data, 1, f.DLC)

\* C27: the frame a PDO control function puts on the bus: PDOShutDown, PDOSwitchOn
\* and PDOEnableOp send identifier 0x200+node with payload 06 00, 07 00, 0F 00;
\* PDOSwitchProfile sends 0x300+node with 0F 00 profile; PDOSetPosition sends
\* 0x400+node and PDOSetVelocity 0x500+node with 0F 00 and four bytes that read as
\* a little-endian signed 32-bit number give the value, for every value.
C27_PDOFrames ==
    (seq.fn = "PDO" /\ seq.calls > 0 /\ seq.sent
       /\ seq.kind \notin {"startPDO", "stopPDO"}) =>
        LET f == bus[Len(bus)]
            node == epos[1].Node_ID
        IN  CASE seq.kind = "PDOShutDown" -> f.StdId = \h200 + node /\ Wire(f) = <<\h06, \h00>>
              [] seq.kind = "PDOSwitchOn" -> f.StdId = \h200 + node /\ Wire(f) = <<\h07, \h00>>
              [] seq.kind = "PDOEnableOp" -> f.StdId = \h200 + node /\ Wire(f) = <<\h0F, \h00>>
              [] seq.kind = "PDOSwitchProfile" ->
                    f.StdId = \h300 + node /\ Wire(f) = <<\h0F, \h00, seq.arg>>
              [] seq.kind \in {"PDOSetPosition", "PDOSetVelocity"} ->
                    /\ f.StdId = (IF seq.kind = "PDOSetPosition" THEN \h400 ELSE \h500) + node
                    /\ f.DLC = 6 /\ B(f, 0) = \h0F /\ B(f, 1) = \h00
                    /\ SignedLE32(B(f, 2), B(f, 3), B(f, 4), B(f, 5)) = seq.arg

\* position -200000 went out to node 127 as 0F 00 C0 F2 FC FF
C27_Witness ==
    /\ seq.fn = "PDO" /\ seq.sent /\ seq.kind = "PDOSetPosition" /\ seq.arg = -200000
    /\ bus[Len(bus)].StdId = \h47F
    /\ Wire(bus[Len(bus)]) = <<\h0F, \h00, \hC0, \hF2, \hFC, \hFF>>
    /\ seq.TxPosition = -200000 /\ seq.ret = 1

-----------------------------------------------------------------------------
(* C28 *)

\* C28: the control word changeEPOSstate writes for target 3 (quick stop) fits the
\* documented pattern 0xxx x01x: bit 15 clear, bit 2 (quick stop) clear and bit 1
\* (enable voltage) set.
C28_QuickStopPattern ==
    (seq.fn = "changeEPOSstate" /\ seq.calls > 0 /\ seq.state = 3) =>
        LET cw == B(epos[1].TxMessage, 4) + 256 * B(epos[1].TxMessage, 5)
        IN  Bit(cw, 15) = 0 /\ Bit(cw, 2) = 0 /\ Bit(cw, 1) = 1

-----------------------------------------------------------------------------
(* C26 *)

\* C26: waitForTarget returns 0 only when a status word it polled has the
\* target-reached bit (10) set; while no polled word has it, the call goes on
\* polling and, with t > 0, ends with the timeout result 1 after t polls.  Stated
\* for the call doHoming makes (t = 30): when it has returned 0, the frame in the
\* SDO slot is the response to a read of 0x6041 and carries a word with bit 10.
C26_ZeroOnlyOnTargetReached ==
    (seq.fn = "doHoming" /\ seq.pc = "setOpMode" /\ seq.wt = 0) =>
        /\ B(epos[1].SDOMsg, 0) = \h43
        /\ B(epos[1].SDOMsg, 1) = \h41 /\ B(epos[1].SDOMsg, 2) = \h60
        /\ Bit(B(epos[1].SDOMsg, 4) + 256 * B(epos[1].SDOMsg, 5), 10) = 1


-----------------------------------------------------------------------------
(* processCANMsg entered with several frames stored.  CANMsgBuf and        *)
(* pCANMsg are globals and processCANMsg is exported (epos.h), so the pass *)
(* is taken from every buffer of up to MaxBuffered frames; the frame at    *)
(* CANMsgBuf[k] arrived before the one at CANMsgBuf[k+1], as the receive   *)
(* callback stores at CANMsgBuf[pCANMsg] and then increments pCANMsg.      *)

\* two opened devices; seq.arrived keeps the frames in arrival order, seq.opened the
\* devices as they were when the pass began
InitPass ==
    /\ \E g \in Garbage : epos = <<openEPOS(1, g), openEPOS(2, g)>>
    /\ hcan = [pTxMsg |-> 1]
    /\ \E n \in 1 .. MaxBuffered :
          \E buf \in [1 .. n -> { Frame(id, 8, d) : id \in DispatchIds(epos), d \in DispatchData }] :
             /\ CANMsgBuf = buf /\ pCANMsg = n
             /\ seq = [fn |-> "processCANMsg", pc |-> "scan", arrived |-> buf, opened |-> epos]
    /\ SDOBusy = FALSE /\ CAN_TxReady = FALSE
    /\ pc = [c \in Callers |-> "idle"]
    /\ call = [c \in Callers |-> NoCall]
    /\ mailbox = <<>> /\ bus = <<>>
    /\ hist = [nrx |-> 0, lastRx |-> NoFrame, sdoDispatched |-> FALSE]
    /\ chk = ChkIdle

NextPass == processCANMsg_scan \/ processCANMsg_decode

SpecPass == InitPass /\ [][NextPass]_vars

-----------------------------------------------------------------------------
(* C21 *)

\* some device claims frame f
Claimed(f) == Claimants(f) # {}

\* C21: a buffered frame that no device claims is dropped: the pass that meets it
\* changes no field of any device and removes the frame from the buffer, and the
\* loop goes on; when the loop has ended the buffer is empty and the devices are as
\* if only the claimed frames had been buffered.
C21_UnclaimedDropped ==
    /\ [][ (seq.fn = "processCANMsg" /\ seq.pc = "scan"
              /\ ~Claimed(CANMsgBuf[Len(CANMsgBuf)])) =>
               /\ epos' = epos
               /\ CANMsgBuf' = SubSeq(CANMsgBuf, 1, Len(CANMsgBuf) - 1)
               /\ pCANMsg' = pCANMsg - 1
               /\ seq'.pc = IF Len(CANMsgBuf') > 0 THEN "scan" ELSE "decode" ]_vars
    /\ [] ( (seq.fn = "processCANMsg" /\ seq.pc = "decode") =>
               /\ CANMsgBuf = <<>> /\ pCANMsg = 0
               /\ epos = DrainBuffer(seq.opened, SelectSeq(seq.arrived, Claimed)) )

\* an unclaimed frame was on top of a response for the second device: the pass is
\* over, the response is in the device's slot, nothing else changed
C21_Witness ==
    /\ seq.fn = "processCANMsg" /\ seq.pc = "decode"
    /\ Len(seq.arrived) = 2
    /\ seq.arrived[2].StdId = \h77F
    /\ seq.arrived[1].StdId = \h582
    /\ epos[1] = seq.opened[1]
    /\ epos[2] = [seq.opened[2] EXCEPT !.SDOMsg = seq.arrived[1], !.SDORcvFlag = TRUE]

-----------------------------------------------------------------------------
(* C23 *)

\* the slot of the channel with identifier offset off
Slot(dev, off) ==
    CASE off = \h180 -> dev.PDO1Msg
      [] off = \h280 -> dev.PDO2Msg
      [] off = \h380 -> dev.PDO3Msg
      [] off = \h480 -> dev.PDO4Msg
      [] off = \h580 -> dev.SDOMsg

-----------------------------------------------------------------------------
(* The SDO engine under fairness: the foreground keeps running its wait    *)
(* loops, the transport signals every transmission, the device answers     *)
(* every request on the bus once, and the receive callback runs.           *)

\* the device answers the oldest request on the bus, whatever was received before
DeviceReply ==
    /\ bus # <<>>
    /\ \E abort \in BOOLEAN :
         \E p \in (IF abort THEN AbortPayloads ELSE ValuePayloads) :
            HAL_CAN_RxCpltCallback(Response(Head(bus), abort, p))
    /\ bus' = Tail(bus)
    /\ UNCHANGED <<hcan, SDOBusy, CAN_TxReady, pc, call, mailbox, chk, seq>>

\* the foreground starts a call only while fewer than MaxRx frames were received
NextLive ==
    \/ (pc[1] = "idle" => hist.nrx < MaxRx) /\ CallerStep(1)
    \/ HAL_CAN_TxCpltCallback
    \/ DeviceReply

\* a call that was started goes on (its loops poll again and again); the
\* transmit-complete interrupt and the device's response are not withheld forever
LiveFairness ==
    /\ WF_vars(pc[1] # "idle" /\ CallerStep(1))
    /\ WF_vars(HAL_CAN_TxCpltCallback)
    /\ WF_vars(DeviceReply)

\* two devices opened on one handle, one foreground caller
SpecLive == InitShared /\ [][NextLive]_vars /\ LiveFairness

-----------------------------------------------------------------------------
(* C31 *)

\* C31: under fairness every ReadObject / WriteObject call that was started
\* eventually returns, however the transmit-complete and receive callbacks
\* interleave with the foreground.
C31_CallsReturn == (pc[1] = "sendCom") ~> (pc[1] = "done")

\* The handshake itself loses no wake-up: a call for the device whose frame the
\* handle transmits (the device opened last) returns, also when the response is
\* dispatched before the call polls the flag.
CallsOfLastOpenedReturn ==
    (pc[1] = "sendCom" /\ call[1].dev = hcan.pTxMsg) ~> (pc[1] = "done")


-----------------------------------------------------------------------------
(* processCANMsg called from the foreground while frames arrive: the       *)
(* receive callback preempts the foreground between any two of its steps   *)
(* and runs to its end before the foreground goes on.                      *)

\* size of CANMsgBuf
CANMsgBufSize == 16

\* the foreground's call of processCANMsg, one step at a time: the call, the test
\* of while (pCANMsg > 0), the body of the loop (the for loop over the devices and
\* pCANMsg--, on the uint8_t index), processPDOMessage and the return.  call[1].n
\* keeps the number of frames received before the call.
processCANMsg_foreground ==
    /\ seq.fn = "processCANMsg" /\ seq.pc = "idle"
    /\ pc[1] \in {"idle", "while", "for", "decode"}
    /\ pc' = [pc EXCEPT ![1] = CASE pc[1] = "idle" -> "while"
                                 [] pc[1] = "while" -> IF pCANMsg > 0 THEN "for" ELSE "decode"
                                 [] pc[1] = "for" -> "while"
                                 [] pc[1] = "decode" -> "idle"]
    /\ call' = [call EXCEPT ![1].n = IF pc[1] = "idle" THEN hist.nrx ELSE @]
    /\ epos' = CASE pc[1] = "for" -> ScanDevices(epos, CANMsgBuf[pCANMsg], 1)
                 [] pc[1] = "decode" -> processPDOMessage(epos)
                 [] OTHER -> epos
    /\ CANMsgBuf' = IF pc[1] = "for" THEN SubSeq(CANMsgBuf, 1, pCANMsg - 1) ELSE CANMsgBuf
    /\ pCANMsg' = IF pc[1] = "for" THEN (pCANMsg + 255) % 256 ELSE pCANMsg
    /\ UNCHANGED <<hcan, SDOBusy, CAN_TxReady, mailbox, bus, hist, chk, seq>>

NextPreempt ==
    Rx_store \/ processCANMsg_scan \/ processCANMsg_decode \/ processCANMsg_foreground

SpecPreempt == InitScan /\ [][NextPreempt]_vars

-----------------------------------------------------------------------------
(* C32 *)

\* C32: the index of the receive buffer stays in bounds: the callback stores at
\* CANMsgBuf[pCANMsg] with pCANMsg in 0..15, the dispatcher (in the callback or in
\* the foreground) reads CANMsgBuf[pCANMsg-1] with pCANMsg-1 in 0..15, pCANMsg never
\* wraps below 0, and pCANMsg is 0 whenever no receive callback is running.
C32_IndexInBounds ==
    /\ pCANMsg \in 0 .. CANMsgBufSize /\ pCANMsg = Len(CANMsgBuf)
    /\ seq.pc = "idle" => pCANMsg = 0
    /\ seq.pc = "scan" => pCANMsg - 1 \in 0 .. (CANMsgBufSize - 1)
    /\ pc[1] = "for" => pCANMsg - 1 \in 0 .. (CANMsgBufSize - 1)

\* the foreground is inside processCANMsg, past the test of its loop, and a receive
\* callback has run to its end since the foreground made the call
C32_Witness ==
    /\ pc[1] = "decode" /\ seq.pc = "idle"
    /\ hist.nrx > call[1].n
    /\ pCANMsg = 0


-----------------------------------------------------------------------------
(* C33 *)

\* C33: monitorHomingStatus never returns 1 (its results are 0 and -2), so doHoming
\* never takes the branch that returns 2: the results of doHoming are 0, -1 and -5.
C33_NeverTwoTurns ==
    /\ seq.fn = "doHoming" => seq.mret \in {0, -2}
    /\ (seq.fn = "doHoming" /\ seq.pc = "done") => seq.ret \in {0, -1, -5}

\* the monitor returned a non-zero result, which doHoming tested against 1, and
\* doHoming has returned after its own status read
C33_Witness ==
    /\ seq.fn = "doHoming" /\ seq.pc = "done"
    /\ seq.mret = -2 /\ seq.final
    /\ seq.ret = -5


-----------------------------------------------------------------------------
(* C34 *)

\* C34: monitorHomingStatus returns 0 only after it polled a status word with
\* target-reached (bit 10) or homing-attained (bit 12) set and homing-error
\* (bit 13) clear: its loop is left for the closing reads and return 0 only from
\* the tested status read, with such a word in its local status; a failed read of
\* position, velocity or current does not lead there.
C34_ZeroOnlyAfterFinish ==
    [][ (seq.fn = "doHoming" /\ seq'.pc = "end.position"
          /\ seq.pc \in {"monitor.position", "monitor.velocity", "monitor.current",
                         "monitor.status1", "monitor.status2"}) =>
           /\ seq.pc = "monitor.status2"
           /\ Has(seq'.hstatus, E_BIT10) \/ Has(seq'.hstatus, E_BIT12)
           /\ ~ Has(seq'.hstatus, E_BIT13) ]_vars


-----------------------------------------------------------------------------
(* C38 *)

\* C38: changeEPOSstate with a target outside 0..6 returns -1, puts no frame on
\* the bus and changes no field of the device (its transmit frame included).
C38_UnknownTarget ==
    [][ (seq.fn = "changeEPOSstate" /\ seq'.calls = seq.calls + 1
          /\ seq'.state \notin 0 .. 6) =>
           /\ seq'.ret = -1
           /\ seq'.tx = <<>> /\ bus' = bus /\ mailbox' = mailbox
           /\ epos' = epos
           /\ seq'.cw = seq.cw ]_vars

\* after an acknowledged shutdown, target 7 was refused: the transmit frame is
\* still the shutdown request, the device still holds 0x0006
C38_Witness ==
    /\ seq.fn = "changeEPOSstate" /\ seq.calls = 2
    /\ seq.state = 7 /\ seq.ret = -1 /\ seq.tx = <<>>
    /\ B(epos[1].TxMessage, 4) = \h06 /\ seq.cw = \h0006


-----------------------------------------------------------------------------
(* C37 *)

\* C37: when the transport refuses the frame, PDOSetPosition, PDOSetVelocity,
\* PDOSwitchProfile, startPDO and stopPDO return -1 and leave TxPosition,
\* TxVelocity, CurProfile and isPDO as they were; each of the four changes only in
\* a call of its own function whose frame went on the bus.
C37_CachesFollowTransmit ==
    [][ (seq.fn = "PDO" /\ seq'.calls = seq.calls + 1) =>
           /\ ~ seq'.sent =>
                 /\ seq'.ret = -1 /\ bus' = bus
                 /\ seq'.TxPosition = seq.TxPosition /\ seq'.TxVelocity = seq.TxVelocity
                 /\ seq'.CurProfile = seq.CurProfile /\ seq'.isPDO = seq.isPDO
           /\ seq'.TxPosition # seq.TxPosition => seq'.sent /\ seq'.kind = "PDOSetPosition"
           /\ seq'.TxVelocity # seq.TxVelocity => seq'.sent /\ seq'.kind = "PDOSetVelocity"
           /\ seq'.CurProfile # seq.CurProfile => seq'.sent /\ seq'.kind = "PDOSwitchProfile"
           /\ seq'.isPDO # seq.isPDO => seq'.sent /\ seq'.kind \in {"startPDO", "stopPDO"}
           /\ seq'.sent => bus' = Append(bus, PDOFrame(epos[1], seq'.kind, seq'.arg)) ]_vars

\* position -200000 was sent, then the frame for position 500000 was refused:
\* the cached position is still -200000
C37_Witness ==
    /\ seq.fn = "PDO" /\ seq.calls = 2
    /\ seq.kind = "PDOSetPosition" /\ seq.arg = 500000
    /\ ~ seq.sent /\ seq.ret = -1
    /\ seq.TxPosition = -200000 /\ Len(bus) = 1


-----------------------------------------------------------------------------
(* C39 *)

\* C39: SDOBusy is true exactly while an SDO call, read or write, is between
\* building its request and its return, and false while no call is in progress,
\* also after a call that failed at the send.
C39_BusyExactlyInCall ==
    SDOBusy <=> pc[1] \in {"sendCom", "txwait", "readAnswer", "poll", "check", "result"}


-----------------------------------------------------------------------------
(* One frame dispatched to two devices, for every pair of 8-bit node ids.  *)

\* the values of uint8_t Node_ID
Uint8 == 0 .. 255

\* two devices with different node ids have been opened, the one with the smaller
\* id first
InitOrder ==
    /\ \E a \in Uint8, b \in Uint8 :
          a < b /\ epos = <<openEPOS(a, "zero"), openEPOS(b, "zero")>>
    /\ EngineIdle
    /\ chk = ChkIdle

\* the receive callback runs once, with a frame of one of the identifiers the two
\* devices listen to or of a foreign one
RxOne ==
    /\ hist.nrx = 0
    /\ \E id \in DispatchIds(epos) : HAL_CAN_RxCpltCallback(Frame(id, 8, ScanData))
    /\ UNCHANGED <<hcan, SDOBusy, CAN_TxReady, pc, call, mailbox, bus, chk, seq>>

SpecOrder == InitOrder /\ [][RxOne]_vars

-----------------------------------------------------------------------------
(* C35 *)

\* C35: with pairwise distinct 8-bit node ids the identifier of a frame is
\* node id + offset for at most one device and one of the six offsets, so the
\* devices after the dispatch are the same whichever of them comes first in the
\* array.
C35_OrderIndependent ==
    hist.nrx = 1 =>
        LET f == hist.lastRx
            swapped == processCANMsg(<<openEPOS(epos[2].Node_ID, "zero"),
                                       openEPOS(epos[1].Node_ID, "zero")>>, <<f>>)
        IN  /\ Cardinality({ p \in (1 .. Len(epos)) \X ChannelOffsets :
                                f.StdId = epos[p[1]].Node_ID + p[2] }) <= 1
            /\ epos[1] = swapped[2] /\ epos[2] = swapped[1]

\* node ids 0 and 255: identifier 0x57F, one below the first device's SDO
\* identifier, went to the second device's PDO-4 slot
C35_Witness ==
    /\ hist.nrx = 1 /\ hist.lastRx.StdId = \h57F
    /\ epos[1].Node_ID = 0 /\ epos[2].Node_ID = 255
    /\ epos[2].PDO4Msg = hist.lastRx /\ epos[1] = openEPOS(0, "zero")


-----------------------------------------------------------------------------
(* processCANMsg over a device array with an entry that was not opened.    *)
(* seq.null is the set of indices i with epos[i] == NULL; the record the    *)
(* model keeps at such an index stands for the memory a dereference of the *)
(* null pointer would read.                                                *)

RECURSIVE ScanOpened(_, _, _, _)
\* the for loop of processCANMsg with its test if (!epos[i]) continue
ScanOpened(ep, null, f, i) ==
    IF i > Len(ep) THEN ep
    ELSE IF i \in null THEN ScanOpened(ep, null, f, i + 1)
    ELSE IF Classify(ep[i], f) # "none"
         THEN [ep EXCEPT ![i] = Deliver(ep[i], Classify(ep[i], f), f)]
         ELSE ScanOpened(ep, null, f, i + 1)

\* the receive callback with one frame: the frame is stored and dispatched, then
\* processPDOMessage goes through all num entries and reads epos[i]->PDO3RcvFlag
\* of each, without a test of epos[i].  The read through a null pointer is
\* undefined: it traps (the entries before it were decoded, the callback does not
\* return) or it yields what the memory holds and the pass goes on.  seq.deref
\* collects the null entries that were dereferenced.
Rx_withNull ==
    /\ seq.fn = "null" /\ seq.pc = "idle"
    /\ hist.nrx < MaxDispatch
    /\ \E id \in DispatchIds(epos), trap \in BOOLEAN :
          LET f == Frame(id, 8, ScanData)
              scanned == ScanOpened(epos, seq.null, f, 1)
              first == CHOOSE k \in seq.null : \A m \in seq.null : k <= m
          IN  /\ epos' = [i \in 1 .. Len(epos) |->
                             IF i \in seq.null \/ (trap /\ i > first) THEN scanned[i]
                             ELSE DecodePDO(scanned[i])]
              /\ seq' = [seq EXCEPT !.pc = IF trap THEN "HardFault" ELSE "idle",
                                    !.deref = IF trap THEN @ \cup {first} ELSE seq.null]
              /\ hist' = [hist EXCEPT !.nrx = @ + 1, !.lastRx = f,
                                      !.sdoDispatched = @ \/ IsSDOFor(scanned, f)]
    /\ CANMsgBuf' = <<>> /\ pCANMsg' = 0
    /\ UNCHANGED <<hcan, SDOBusy, CAN_TxReady, pc, call, mailbox, bus, chk>>

\* an array of three entries, two of them opened (node ids 1 and 2), one NULL
InitNull ==
    /\ \E k \in 1 .. 3, g \in Garbage :
          /\ epos = [i \in 1 .. 3 |-> IF i = k THEN openEPOS(0, g)
                                      ELSE openEPOS(IF i < k THEN i ELSE i - 1, g)]
          /\ seq = [fn |-> "null", pc |-> "idle", null |-> {k}, deref |-> {}]
    /\ hcan = [pTxMsg |-> 1]
    /\ CANMsgBuf = <<>> /\ pCANMsg = 0
    /\ SDOBusy = FALSE /\ CAN_TxReady = FALSE
    /\ pc = [c \in Callers |-> "idle"]
    /\ call = [c \in Callers |-> NoCall]
    /\ mailbox = <<>> /\ bus = <<>>
    /\ hist = [nrx |-> 0, lastRx |-> NoFrame, sdoDispatched |-> FALSE]
    /\ chk = ChkIdle

SpecNull == InitNull /\ [][Rx_withNull]_vars

-----------------------------------------------------------------------------
(* C36 *)

\* C36: processCANMsg with a NULL entry in the device array skips the entry in the
\* classification pass and in the PDO decode pass: no field of it is accessed and
\* the call returns.
C36_NullNeverDereferenced ==
    seq.fn = "null" => (seq.deref = {} /\ seq.pc # "HardFault")

\* The classification pass does skip the entry: whatever identifier arrives, the
\* memory behind a NULL entry is not written, and a frame for an opened device
\* reaches its slot.
ClassificationSkipsNull ==
    [][ seq.fn = "null" =>
          /\ \A i \in seq.null : epos'[i] = epos[i]
          /\ \A i \in (1 .. Len(epos)) \ seq.null :
                hist'.lastRx.StdId = epos[i].Node_ID + \h580 =>
                    epos'[i].SDOMsg = hist'.lastRx /\ epos'[i].SDORcvFlag ]_vars

=============================================================================
